---- MODULE Spec2Model ----
(***************************************************************************)
(* The job store and execution engine of api/main.py: the _jobs map, the   *)
(* ThreadPoolExecutor that runs _run_pipeline, and the caller-facing       *)
(* operations analyze_plot, regenerate, shutdown_executor and              *)
(* clear_jobs_for_testing.  Every block guarded by `with _jobs_lock` is    *)
(* one atomic action; the code between two such blocks is a separate       *)
(* action, so that other threads interleave exactly where the lock is not  *)
(* held.  Timestamps (created_at, updated_at) are not part of the state.   *)
(***************************************************************************)
EXTENDS Integers, Sequences, FiniteSets, Bags, TLC

\* ------------------------------------------------------------------ bounds
\* The calls of analyze_plot and of regenerate (on a stored id) that are made.
MaxCalls == 2

\* ThreadPoolExecutor(max_workers=4)
MaxWorkers == 4

\* The calls made when the pool is put under load: one more than it has threads.
MaxPoolCalls == MaxWorkers + 1

\* The longest list of candidates the ranking is tried on.
MaxCandidates == 3

\* Every call may get a job id and a request thread of its own.
JobIds == 1 .. MaxCalls
Callers == 1 .. MaxCalls

\* ------------------------------------------------------------ value model
\* Optional[T]: None is the empty sequence, a present value x is <<x>>.
None == << >>

Some(x) == << x >>

JobStatus == {"pending", "running", "completed", "failed"}

\* RequirementInput: the room counts are fixed, apply_vastu varies.
RequirementInput(vastu) ==
    [bedrooms |-> 3, bathrooms |-> 2, kitchen |-> 1, living_room |-> 1,
     dining_room |-> 1, apply_vastu |-> vastu]

RequirementInputs == { RequirementInput(v) : v \in BOOLEAN }

\* AnalyzePlotRequest: location and plot are those of the sample request.
AnalyzePlotRequests ==
    { [location |-> [lat |-> 13, lon |-> 78],
       plot |-> [orientation |-> "north", road_facing |-> "east"],
       requirements |-> r] : r \in RequirementInputs }

\* request.model_copy(update={"requirements": requirements})
\* Mutant of ModelCopyRequirements: the update passed to model_copy also names
\* the plot, so regenerate overwrites the stored orientation.
ModelCopyWithDefaultPlot(request, requirements) ==
    [request EXCEPT !.requirements = requirements, !.plot.orientation = "south"]

ModelCopyRequirements(request, requirements) ==
    [request EXCEPT !.requirements = requirements]

\* JobRecord(request=request): status pending, result None, error None; job_id
\* and created_at are what the default factories uuid4 and datetime.now give.
JobRecord(job_id, created_at, request) ==
    [job_id |-> job_id, created_at |-> created_at,
     status |-> "pending", request |-> request, result |-> None, error |-> None]

\* ------------------------------------------------- environmental derivation
\* Latitudes and longitudes are whole degrees.  Numbers with decimals are kept
\* as integers: elevation and the validator's scores in hundredths, a raw score
\* in tenths, a weight in hundredths, their product in thousandths.
Abs(x) == IF x >= 0 THEN x ELSE -x

\* round(abs(lat * 12.5 + lon * 1.1) % 900 + 30, 2), in hundredths of a metre.
EstimateElevation(lat, lon) == (Abs(lat * 1250 + lon * 110) % 90000) + 3000

\* _timezone_from_longitude: int(round(lon / 15)), the offset in hours. No whole
\* longitude is halfway between two offsets.
TimezoneFromLongitude(lon) == (2 * lon + 15) \div 30

\* The side on which the binary float of mean(seasonal_temp) lies when the
\* exact mean 24.5 - 0.045 * |lat| ends in 5 thousandths: at |lat| = 13 the
\* float of 23.915 is below it. 0 where the mean is exact (|lat| = 0, 34).
MeanErr(a) == IF a = 13 THEN -1 ELSE 0

\* _weather_summary: average_temp_c = round(mean([28 - 0.1|lat|,
\* 24 - 0.08|lat|, 20, 26]), 2) and humidity_pct = round(60 + |lat| % 20, 2), in
\* hundredths.
WeatherSummary(lat) ==
    LET a == Abs(lat)
        thousandths == 24500 - 45 * a
    IN [average_temp_c |-> IF thousandths % 10 = 5
                              THEN (thousandths \div 10)
                                   + (IF MeanErr(a) < 0 THEN 0 ELSE 1)
                              ELSE (thousandths + 5) \div 10,
        humidity_pct |-> 100 * (60 + (a % 20))]

\* Mutant of SunlightProfile: the equator is given the northern exposure.
SunlightProfileStrictlyNorth(lat) ==
    [preferred_exposure |-> IF lat > 0 THEN "south" ELSE "north",
     annual_solar_index |-> 650 - Abs(lat)]

\* _sunlight_profile: annual_solar_index = round(6.5 - |lat| * 0.01, 2), in
\* hundredths.
SunlightProfile(lat) ==
    [preferred_exposure |-> IF lat >= 0 THEN "south" ELSE "north",
     annual_solar_index |-> 650 - Abs(lat)]

\* _wind_profile: avg_speed_mps = round(3.5 + |lat| % 4, 2), in hundredths.
WindProfile(lat) ==
    [prevailing_direction |-> IF lat >= 0 THEN "SW" ELSE "NW",
     avg_speed_mps |-> 350 + 100 * (Abs(lat) % 4)]

\* _rainfall_profile: round(700 + |lat| * 15, 2), in hundredths of a millimetre.
RainfallProfile(lat) == 100 * (700 + 15 * Abs(lat))

\* fetch_environmental_profile: every section but collected_at, which is the
\* clock's reading at the call.
FetchEnvironmentalProfile(location) ==
    [geolocation |-> [lat |-> location.lat, lon |-> location.lon,
                      timezone |-> TimezoneFromLongitude(location.lon)],
     elevation_m |-> EstimateElevation(location.lat, location.lon),
     weather |-> WeatherSummary(location.lat),
     solar |-> SunlightProfile(location.lat),
     wind |-> WindProfile(location.lat),
     rainfall_mm |-> RainfallProfile(location.lat)]

\* ------------------------------------------------------ specialist agents
\* OrchestratorAgent._agents: the declared order of the eight specialists.
AgentOrder ==
    << "architect", "meteorologist", "geologist", "structural_engineer",
       "site_engineer", "vastu_expert", "interior_designer", "construction_builder" >>

AgentNames == { AgentOrder[i] : i \in 1 .. Len(AgentOrder) }

\* AgentResult(name, decision, reasoning, score, weight).  A decision text is the
\* sequence of the pieces of its f-string: the literal parts and the values
\* formatted into it (a number by its digits).
AgentResult(name, decision, reasoning, score, weight) ==
    [name |-> name, decision |-> decision, reasoning |-> reasoning,
     score |-> score, weight |-> weight]

\* agent.run(payload, environmental) of the agent class with that name.
AgentRun(name, payload, env) ==
    CASE name = "architect" ->
           AgentResult(name, << "Primary living spaces aligned to ",
                                env.solar.preferred_exposure >>,
                       "Optimized for natural daylight", 85, 100)
      [] name = "meteorologist" ->
           AgentResult(name, << "Cross-ventilation windows oriented towards ",
                                env.wind.prevailing_direction >>,
                       "Uses prevailing wind data", 82, 90)
      [] name = "geologist" ->
           AgentResult(name, << "Foundation tuned for elevation ",
                                ToString(env.elevation_m), "m" >>,
                       "Reduced moisture and settlement risks", 80, 95)
      [] name = "structural_engineer" ->
           AgentResult(name, << "Load-bearing walls increased to 230mm" >>,
                       "Safety-first structure for regional conditions", 88, 100)
      [] name = "site_engineer" ->
           AgentResult(name, << "Road-facing side set to ", payload.plot.road_facing >>,
                       "Supports practical site access", 78, 85)
      [] name = "vastu_expert" ->
           IF ~payload.requirements.apply_vastu
             THEN AgentResult(name, << "Vastu optional adjustments skipped" >>,
                              "User disabled vastu preferences", 70, 70)
             ELSE AgentResult(name, << "Kitchen placed in south-east zone" >>,
                              "Follows vastu guidance where practical", 76, 70)
      [] name = "interior_designer" ->
           AgentResult(name, << "Circulation path minimized across common rooms" >>,
                       "Improves comfort and usable space", 81, 75)
      [] name = "construction_builder" ->
           AgentResult(name, << "Material schedule generated with climate-adaptive specs" >>,
                       "Construction-ready deliverable generated", 83, 90)

\* Mutant of GraphNodeResult: the interior designer's node reads apply_vastu and
\* scores its decision higher when vastu is applied.
GraphNodeResultVastuCoupled(name, state) ==
    IF name = "interior_designer" /\ state.payload.requirements.apply_vastu
      THEN AgentResult("interior_designer",
                       << "Circulation path minimized across common rooms" >>,
                       "Improves comfort and usable space", 88, 100)
      ELSE AgentRun(name, state.payload, state.environmental)

\* The agent nodes of graph.py: each returns the one result it appends.  They
\* read the profile with .get and a default; a profile of the environmental
\* service has every section, so the default is never taken.
GraphNodeResult(name, state) ==
    CASE name = "architect" ->
           AgentResult("architect", << "Primary living spaces aligned to ",
                                       state.environmental.solar.preferred_exposure >>,
                       "Optimized for natural daylight", 85, 100)
      [] name = "meteorologist" ->
           AgentResult("meteorologist", << "Cross-ventilation windows oriented towards ",
                                           state.environmental.wind.prevailing_direction >>,
                       "Uses prevailing wind data", 82, 90)
      [] name = "geologist" ->
           AgentResult("geologist", << "Foundation tuned for elevation ",
                                       ToString(state.environmental.elevation_m), "m" >>,
                       "Reduced moisture and settlement risks", 80, 95)
      [] name = "structural_engineer" ->
           AgentResult("structural_engineer", << "Load-bearing walls increased to 230mm" >>,
                       "Safety-first structure for regional conditions", 88, 100)
      [] name = "site_engineer" ->
           AgentResult("site_engineer", << "Road-facing side set to ",
                                           state.payload.plot.road_facing >>,
                       "Supports practical site access", 78, 85)
      [] name = "vastu_expert" ->
           IF ~state.payload.requirements.apply_vastu
             THEN AgentResult("vastu_expert", << "Vastu optional adjustments skipped" >>,
                              "User disabled vastu preferences", 70, 70)
             ELSE AgentResult("vastu_expert", << "Kitchen placed in south-east zone" >>,
                              "Follows vastu guidance where practical", 76, 70)
      [] name = "interior_designer" ->
           AgentResult("interior_designer",
                       << "Circulation path minimized across common rooms" >>,
                       "Improves comfort and usable space", 81, 75)
      [] name = "construction_builder" ->
           AgentResult("construction_builder",
                       << "Material schedule generated with climate-adaptive specs" >>,
                       "Construction-ready deliverable generated", 83, 90)

\* ---------------------------------------------------------------- ranking
\* The double item.score * item.weight lies at, below (-1) or above (1) the
\* exact decimal product, for the score and weight pairs of the agents and of
\* the candidates the ranking is tried on (IEEE 754, round to nearest even).
FloatErr(score, weight) ==
    CASE << score, weight >> = << 85, 100 >> -> 0
      [] << score, weight >> \in { << 82, 90 >>, << 80, 95 >>, << 78, 85 >>, << 76, 70 >>,
                                  << 70, 70 >>, << 81, 75 >>, << 61, 84 >> } -> -1
      [] << score, weight >> \in { << 88, 100 >>, << 83, 90 >>, << 64, 80 >>,
                                  << 80, 90 >>, << 72, 100 >> } -> 1

\* key=lambda item: item.score * item.weight: the double, as its exact decimal
\* value in thousandths and the side of it the double lies on.
SortKey(item) == << item.score * item.weight, FloatErr(item.score, item.weight) >>

KeyLess(a, b) == a[1] < b[1] \/ (a[1] = b[1] /\ a[2] < b[2])

\* Mutant of Sorted: reverse=True is missing, the sort is stable ascending.
SortedAscending(results) ==
    LET n == Len(results)
        Before(i, j) ==
            \/ KeyLess(SortKey(results[i]), SortKey(results[j]))
            \/ (SortKey(results[i]) = SortKey(results[j]) /\ i < j)
        Place(i) == 1 + Cardinality({ j \in 1 .. n : Before(j, i) })
    IN [k \in 1 .. n |-> results[CHOOSE i \in 1 .. n : Place(i) = k]]

\* sorted(results, key=..., reverse=True): a result goes before every result
\* with a smaller key, and the sort is stable, so results with equal keys keep
\* the order they have in results.
Sorted(results) ==
    LET n == Len(results)
        Before(i, j) ==
            \/ KeyLess(SortKey(results[j]), SortKey(results[i]))
            \/ (SortKey(results[i]) = SortKey(results[j]) /\ i < j)
        Place(i) == 1 + Cardinality({ j \in 1 .. n : Before(j, i) })
    IN [k \in 1 .. n |-> results[CHOOSE i \in 1 .. n : Place(i) = k]]

\* round(x, 2) of the double x, in hundredths: a double just below or above a
\* half rounds to its own side, an exact half rounds to even.
Round2(key) ==
    LET q == key[1] \div 10
        r == key[1] % 10
    IN CASE r < 5 -> q
         [] r > 5 -> q + 1
         [] r = 5 /\ key[2] < 0 -> q
         [] r = 5 /\ key[2] > 0 -> q + 1
         [] r = 5 /\ key[2] = 0 -> IF q % 2 = 0 THEN q ELSE q + 1

\* DesignDecision(agent=..., decision=..., reasoning=..., score=round(..., 2))
DesignDecision(result) ==
    [agent |-> result.name, decision |-> result.decision,
     reasoning |-> result.reasoning, score |-> Round2(SortKey(result))]

\* OrchestratorAgent.execute, lines 113-122: sort, then build the decisions.
Rank(results) ==
    LET ordered == Sorted(results)
        built == [i \in 1 .. Len(ordered) |-> DesignDecision(ordered[i])]
    IN SubSeq(built, 1, Len(built))   \* the list, element by element

\* OrchestratorAgent.execute, line 112: the results in the declared order.
RunAgents(payload, env) ==
    [i \in 1 .. Len(AgentOrder) |-> AgentRun(AgentOrder[i], payload, env)]

\* OrchestratorAgent.execute
Execute(payload, env) == Rank(RunAgents(payload, env))

\* Mutant of CompileDecisionsNode: sorted() is called without reverse=True.
CompileDecisionsNodeAscending(state) ==
    LET ordered == SortedAscending(state.agent_results)
        built == [i \in 1 .. Len(ordered) |-> DesignDecision(ordered[i])]
    IN SubSeq(built, 1, Len(built))

\* compile_decisions_node of graph.py: the same sort on state["agent_results"].
CompileDecisionsNode(state) ==
    LET ordered == Sorted(state.agent_results)
        built == [i \in 1 .. Len(ordered) |-> DesignDecision(ordered[i])]
    IN SubSeq(built, 1, Len(built))   \* the list, element by element

\* The edges of build_design_graph: the node that follows each node.
GraphEdge(name) ==
    IF \E i \in 1 .. Len(AgentOrder) - 1 : AgentOrder[i] = name
      THEN AgentOrder[(CHOOSE i \in 1 .. Len(AgentOrder) - 1 : AgentOrder[i] = name) + 1]
      ELSE IF name = "construction_builder" THEN "compile_decisions" ELSE "END"

\* ------------------------------------------------------------- validation
\* needle in text.lower(): the literal pieces of the decision texts in which
\* each needle occurs; no value formatted into a text contains one.
Occurrences ==
    { << "ventilation", "Cross-ventilation windows oriented towards " >>,
      << "load-bearing", "Load-bearing walls increased to 230mm" >>,
      << "skipped", "Vastu optional adjustments skipped" >> }

\* Mutant of LowerContains: the text is searched as it is, without .lower(), so
\* 'load-bearing' is not found in 'Load-bearing walls increased to 230mm'.
ContainsCaseSensitive(text, needle) ==
    \E i \in 1 .. Len(text) :
        /\ << needle, text[i] >> \in Occurrences
        /\ needle # "load-bearing"

LowerContains(text, needle) ==
    \E i \in 1 .. Len(text) : << needle, text[i] >> \in Occurrences

\* orientation.lower().startswith(preferred[0]), for the orientations used.
FirstLetter(word) ==
    CASE word \in {"north", "North"} -> "n"
      [] word \in {"south", "South"} -> "s"
      [] word \in {"east"} -> "e"
      [] word \in {"west"} -> "w"

\* Mutant of Evaluate: the issues are judged from the average, so a report whose
\* average is at least 7.0 has none.
EvaluateIssuesFromAverage(request, env, decision_list) ==
    LET orientation_match ==
            IF FirstLetter(request.plot.orientation) = FirstLetter(env.solar.preferred_exposure)
              THEN 100 ELSE 60
        ventilation_score ==
            IF \E i \in 1 .. Len(decision_list) :
                   LowerContains(decision_list[i].decision, "ventilation")
              THEN 850 ELSE 600
        structural_score ==
            IF \E i \in 1 .. Len(decision_list) :
                   LowerContains(decision_list[i].decision, "load-bearing")
              THEN 900 ELSE 650
        sunlight_score == 8 * orientation_match
        total == sunlight_score + ventilation_score + structural_score
    IN [sunlight_score |-> sunlight_score,
        ventilation_score |-> ventilation_score,
        structural_score |-> structural_score,
        energy_efficiency |-> IF total >= 3 * 800 THEN "A" ELSE "B",
        compliant |-> (total >= 3 * 750),
        issues |->
            IF total >= 3 * 700 THEN << >>
            ELSE (IF sunlight_score < 700
                    THEN << "Plot orientation is not optimal for local sun path" >> ELSE << >>)
                 \o (IF ventilation_score < 700
                       THEN << "Cross-ventilation recommendation missing" >> ELSE << >>)
                 \o (IF structural_score < 700
                       THEN << "Structural load validation recommendation missing" >>
                       ELSE << >>)]

\* ScientificValidator.evaluate; scores in hundredths.
Evaluate(request, env, decision_list) ==
    LET orientation_match ==
            IF FirstLetter(request.plot.orientation) = FirstLetter(env.solar.preferred_exposure)
              THEN 100 ELSE 60
        ventilation_score ==
            IF \E i \in 1 .. Len(decision_list) :
                   LowerContains(decision_list[i].decision, "ventilation")
              THEN 850 ELSE 600
        structural_score ==
            IF \E i \in 1 .. Len(decision_list) :
                   LowerContains(decision_list[i].decision, "load-bearing")
              THEN 900 ELSE 650
        sunlight_score == 8 * orientation_match
        total == sunlight_score + ventilation_score + structural_score
    IN [sunlight_score |-> sunlight_score,
        ventilation_score |-> ventilation_score,
        structural_score |-> structural_score,
        energy_efficiency |-> IF total >= 3 * 800 THEN "A" ELSE "B",
        compliant |-> (total >= 3 * 750),
        issues |->
            (IF sunlight_score < 700
               THEN << "Plot orientation is not optimal for local sun path" >> ELSE << >>)
            \o (IF ventilation_score < 700
                  THEN << "Cross-ventilation recommendation missing" >> ELSE << >>)
            \o (IF structural_score < 700
                  THEN << "Structural load validation recommendation missing" >> ELSE << >>)]

\* --------------------------------------------------------------- assembly
\* DesignProcessor.build_outputs: the summary fields that depend on the request
\* and on the validation score (total_area, optimization_score and the file
\* references, which hold a fresh uuid, are not part of the model).
BuildOutputs(request, decision_list, validation_score) ==
    [room_count |-> request.requirements.bedrooms + request.requirements.bathrooms
                    + request.requirements.kitchen + request.requirements.living_room
                    + request.requirements.dining_room,
     energy_efficiency |-> IF validation_score >= 800 THEN "A+" ELSE "A",
     vastu_compliance |-> IF request.requirements.apply_vastu THEN 92 ELSE 0]

\* DesignResult(files=..., summary=..., design_decisions=..., validation=...)
DesignResult(summary, design_decisions, validation) ==
    [summary |-> summary, design_decisions |-> design_decisions, validation |-> validation]

\* ------------------------------------------------------- the try block
\* Where a run of the try block of _run_pipeline faults: nowhere, in the
\* environmental derivation, in one specialist, in validation or in assembly.
Faults == {"none", "environment", "validation", "assembly"} \cup AgentNames

\* Mutant of CollectResults: a specialist that raises is skipped and the others'
\* results are ranked.
CollectResultsSkippingFailed(payload, env, fault) ==
    LET Ran(result) == result.name # fault
    IN [raised |-> FALSE, results |-> SelectSeq(RunAgents(payload, env), Ran)]

\* OrchestratorAgent.execute, line 112: the list comprehension calls the eight
\* agents in order; an agent that raises ends it, and no list is built.
CollectResults(payload, env, fault) ==
    IF fault \in AgentNames
      THEN [raised |-> TRUE, results |-> << >>]
      ELSE [raised |-> FALSE, results |-> RunAgents(payload, env)]

\* _run_pipeline, lines 45-48 with the except clauses that follow: what the try
\* block ends with (outcome) and the DesignResult it has built, if any.
RunStages(request, fault) ==
    IF fault = "environment"
      THEN [outcome |-> "ExternalServiceError", result |-> None]
      ELSE
        LET env == FetchEnvironmentalProfile(request.location)
            collected == CollectResults(request, env, fault)
        IN IF collected.raised \/ fault \in {"validation", "assembly"}
             THEN [outcome |-> "Exception", result |-> None]
             ELSE LET decision_list == Rank(collected.results)
                      validation == Evaluate(request, env, decision_list)
                      summary == BuildOutputs(request, decision_list,
                                              validation.structural_score)
                  IN [outcome |-> "ok",
                      result |-> Some(DesignResult(summary, decision_list, validation))]

\* The ways the try block of _run_pipeline can end.
PipelineOutcomes == {"ok", "ExternalServiceError", "Exception"}

ErrEnvironment == "Failed to collect environmental profile"

ErrUnexpected == "Unexpected failure: "

ErrEnqueue == "Failed to enqueue job: cannot schedule new futures after shutdown"

\* ------------------------------------------------------------------ state
VARIABLES
    jobs,       \* _jobs: job id -> JobRecord, NoJob for an id that is not a key
    usedIds,    \* the job ids uuid4 has produced so far
    queue,      \* the executor's work queue: job ids in submission order
    shutdown,   \* the executor has been shut down
    worker,     \* the busy pool threads, as a bag of their states:
                \* pc, job_id, request (the thread's local copy)
    caller,     \* each request thread: pc, op, job_id, resp
    resets,     \* history: per id, the state resets (submit + found regenerates)
    handed,     \* history: per id, the tasks the pool has accepted
    refused,    \* history: per id, the dispatches the pool has rejected
    started,    \* history: per id, the runs that have set status running
    lock,       \* _jobs_lock: None when free, else the thread that holds it
    budget,     \* the calls of analyze_plot and regenerate this behaviour may make
    reader,     \* the thread that calls the read operations: pc, op, job_id,
                \* job (its reference to the JobRecord), seen, resp
    pipeline,   \* a run of the decision pipeline on its own: payload,
                \* environmental, agent_results, decisions (DesignGraphState)
    node        \* that run's position: the graph node or the line of execute

rankVars == << pipeline, node >>

vars == << worker, caller, queue, shutdown, lock, reader, usedIds,
           resets, handed, refused, started, budget, rankVars, jobs >>

\* _jobs.get(job_id) returns None: the id is not a key of the map.
NoJob == [status |-> "absent"]

Present(j) == jobs[j] # NoJob

\* A pool thread that has taken the task _run_pipeline(j) and not entered it yet.
TaskTaken(j) == [pc |-> "start", job_id |-> j, request |-> None]

\* The pool threads are interchangeable, so the pool is the bag of the states of
\* its busy threads; the other MaxWorkers - BagCardinality(worker) are idle.
Busy == BagToSet(worker)

Replace(t, u) == (worker (-) SetToBag({t})) (+) SetToBag({u})

Release(t) == worker (-) SetToBag({t})

IdleCaller(resp) == [pc |-> "idle", op |-> "none", job_id |-> 0, resp |-> resp]

\* What a read operation answers: the kind of answer and the value it carries.
Response(kind, value) == [kind |-> kind, value |-> value]

\* The reading thread outside a call; resp is what its last call answered.
IdleReader(resp) ==
    [pc |-> "idle", op |-> "none", job_id |-> 0, job |-> None, seen |-> None, resp |-> resp]

\* The decision pipeline at rest: no request is being evaluated.
RankIdle ==
    /\ pipeline = [payload |-> None, environmental |-> None,
                   agent_results |-> << >>, decisions |-> << >>]
    /\ node = "idle"

\* The module-level state of api/main.py after import.
StoreInit ==
    /\ lock = None
    /\ reader = IdleReader(Response("none", None))
    /\ jobs = [j \in JobIds |-> NoJob]
    /\ usedIds = {}
    /\ queue = << >>
    /\ shutdown = FALSE
    /\ worker = EmptyBag
    /\ caller = [c \in Callers |-> IdleCaller("none")]
    /\ resets = [j \in JobIds |-> 0]
    /\ handed = [j \in JobIds |-> 0]
    /\ refused = [j \in JobIds |-> 0]
    /\ started = [j \in JobIds |-> 0]

Init ==
    /\ StoreInit
    /\ budget = MaxCalls
    /\ RankIdle

\* ------------------------------------------------- caller-facing operations
RECURSIVE SumOver(_, _)
SumOver(f, S) ==
    IF S = {} THEN 0
    ELSE LET x == CHOOSE y \in S : TRUE IN f[x] + SumOver(f, S \ {x})

\* The calls made so far that have stored or reset a job.
Calls == SumOver(resets, JobIds)

\* Request threads are interchangeable: the next call is made on the
\* lowest-numbered thread that is not inside a call.
FirstIdleCaller(c) ==
    /\ caller[c].pc = "idle"
    /\ \A d \in Callers : d < c => caller[d].pc # "idle"

\* datetime.now(UTC) at the creation of a record: the clock is read as the
\* number of the record among those created so far.
CreationInstant == Cardinality(usedIds) + 1

\* Mutant of FreshJobId: job_id has a fixed default (default=uuid4() evaluated
\* once) instead of default_factory=uuid4, so every JobRecord gets the same id.
FixedJobId == CHOOSE j \in JobIds : \A k \in JobIds : j <= k

\* uuid4(): an id no job has had before.
FreshJobId == CHOOSE j \in JobIds \ usedIds : \A k \in JobIds \ usedIds : j <= k

\* analyze_plot, lines 92-94: build the JobRecord and store it under the lock.
AnalyzePlot(c, request) ==
    /\ FirstIdleCaller(c)
    /\ lock = None
    /\ Calls < budget
    /\ usedIds # JobIds
    /\ LET j == FreshJobId IN
        /\ usedIds' = usedIds \cup {j}
        /\ jobs' = [jobs EXCEPT ![j] = JobRecord(j, CreationInstant, request)]
        /\ resets' = [resets EXCEPT ![j] = @ + 1]
        /\ caller' = [caller EXCEPT ![c] =
                        [pc |-> "dispatch", op |-> "analyze_plot", job_id |-> j, resp |-> "none"]]
    /\ UNCHANGED << queue, shutdown, worker, handed, refused, started >>
    /\ UNCHANGED << lock, budget, reader, rankVars >>

\* Mutant of Regenerate: the `if not existing` check is missing from the critical
\* section, so an unknown id is dispatched like a known one.
RegenerateWithoutLookup(c, j, requirements) ==
    /\ FirstIdleCaller(c)
    /\ lock = None
    /\ Present(j) => Calls < budget
    /\ IF ~Present(j)
         THEN /\ caller' = [caller EXCEPT ![c] =
                              [pc |-> "dispatch", op |-> "regenerate", job_id |-> j, resp |-> "none"]]
              /\ UNCHANGED << jobs, resets >>
         ELSE /\ jobs' = [jobs EXCEPT
                           ![j].request = ModelCopyRequirements(@, requirements),
                           ![j].error = None,
                           ![j].result = None,
                           ![j].status = "pending"]
              /\ resets' = [resets EXCEPT ![j] = @ + 1]
              /\ caller' = [caller EXCEPT ![c] =
                              [pc |-> "dispatch", op |-> "regenerate", job_id |-> j, resp |-> "none"]]
    /\ UNCHANGED << usedIds, queue, shutdown, worker, handed, refused, started >>
    /\ UNCHANGED << lock, budget, reader, rankVars >>

\* regenerate, lines 121-129: the critical section, or the 404.
Regenerate(c, j, requirements) ==
    /\ FirstIdleCaller(c)
    /\ lock = None
    /\ Present(j) => Calls < budget
    /\ IF ~Present(j)
         THEN /\ caller' = [caller EXCEPT ![c] = IdleCaller("NotFound")]
              /\ UNCHANGED << jobs, resets >>
         ELSE /\ jobs' = [jobs EXCEPT
                           ![j].request = ModelCopyRequirements(@, requirements),
                           ![j].error = None,
                           ![j].result = None,
                           ![j].status = "pending"]
              /\ resets' = [resets EXCEPT ![j] = @ + 1]
              /\ caller' = [caller EXCEPT ![c] =
                              [pc |-> "dispatch", op |-> "regenerate", job_id |-> j, resp |-> "none"]]
    /\ UNCHANGED << usedIds, queue, shutdown, worker, handed, refused, started >>
    /\ UNCHANGED << lock, budget, reader, rankVars >>

\* _submit_pipeline, lines 77-80: _executor.submit either queues the task, and the
\* operation returns pending, or raises RuntimeError because the pool is shut down.
SubmitPipeline(c) ==
    /\ caller[c].pc = "dispatch"
    /\ LET j == caller[c].job_id IN
        IF ~shutdown
          THEN /\ queue' = Append(queue, j)
               /\ handed' = [handed EXCEPT ![j] = @ + 1]
               /\ caller' = [caller EXCEPT ![c] = IdleCaller("pending")]
               /\ UNCHANGED refused
          ELSE /\ refused' = [refused EXCEPT ![j] = @ + 1]
               /\ caller' = [caller EXCEPT ![c].pc = "rejected"]
               /\ UNCHANGED << queue, handed >>
    /\ UNCHANGED << jobs, usedIds, shutdown, worker, resets, started >>
    /\ UNCHANGED << lock, budget, reader, rankVars >>

\* Mutant of RecordRejected: the except block only logs the RuntimeError.
RecordRejectedLogsOnly(c) ==
    /\ caller[c].pc = "rejected"
    /\ caller' = [caller EXCEPT ![c] = IdleCaller("pending")]
    /\ UNCHANGED << jobs, usedIds, queue, shutdown, worker, resets, handed, refused, started >>
    /\ UNCHANGED << lock, budget, reader, rankVars >>

\* _submit_pipeline, lines 81-87: record the rejection under the lock, then the
\* operation returns pending (lines 96, 131).
RecordRejected(c) ==
    /\ caller[c].pc = "rejected"
    /\ lock = None
    /\ LET j == caller[c].job_id IN
        jobs' = IF Present(j)
                  THEN [jobs EXCEPT ![j].status = "failed", ![j].error = Some(ErrEnqueue)]
                  ELSE jobs
    /\ caller' = [caller EXCEPT ![c] = IdleCaller("pending")]
    /\ UNCHANGED << usedIds, queue, shutdown, worker, resets, handed, refused, started >>
    /\ UNCHANGED << lock, budget, reader, rankVars >>

\* shutdown_executor: _executor.shutdown(wait=True); queued tasks still run.
ShutdownExecutor ==
    /\ ~shutdown
    /\ shutdown' = TRUE
    /\ UNCHANGED << jobs, usedIds, queue, worker, caller, resets, handed, refused, started >>
    /\ UNCHANGED << lock, budget, reader, rankVars >>

\* A JobRecord that _jobs.clear() drops stays alive while a reading thread holds
\* a reference to it, and nothing writes to it any more: the reference becomes
\* the record as it was when it was dropped.
Detached(r) ==
    IF Len(r.job) = 1 THEN [r EXCEPT !.job = << "dropped", jobs[r.job_id] >>] ELSE r

\* clear_jobs_for_testing: _jobs.clear() under the lock.
ClearJobs ==
    /\ \E j \in JobIds : Present(j)
    /\ lock = None
    /\ jobs' = [j \in JobIds |-> NoJob]
    /\ reader' = Detached(reader)
    /\ UNCHANGED << usedIds, queue, shutdown, worker, caller, resets, handed, refused, started >>
    /\ UNCHANGED << lock, budget, rankVars >>

\* --------------------------------------------------------- read operations
\* The JobRecord the reading thread's local `job` refers to: the record stored
\* under its id, which other threads go on writing, or a dropped record.
Job(r) == IF Len(r.job) = 1 THEN jobs[r.job_id] ELSE r.job[2]

\* The first attribute each operation reads after its lookup.
FirstRead(op) == IF op = "get_validation_report" THEN "check" ELSE "status"

\* get_status 101-104, get_result 110-113, get_validation_report 147-149:
\* job = _jobs.get(job_id) under the lock, and the 404 when there is none.
ReaderLookup(op, j) ==
    /\ reader.pc = "idle"
    /\ lock = None
    /\ reader' = IF Present(j)
                   THEN [pc |-> FirstRead(op), op |-> op, job_id |-> j,
                         job |-> << "stored" >>, seen |-> None,
                         resp |-> Response("none", None)]
                   ELSE IdleReader(Response("NotFound", None))
    /\ UNCHANGED << jobs, usedIds, queue, shutdown, worker, caller, resets, handed,
                    refused, started, lock, budget, rankVars >>

\* get_status, line 105: job.status is read first, without the lock.
GetStatusReadStatus ==
    /\ reader.op = "get_status" /\ reader.pc = "status"
    /\ reader' = [reader EXCEPT !.pc = "error", !.seen = Some(Job(reader).status)]
    /\ UNCHANGED << jobs, usedIds, queue, shutdown, worker, caller, resets, handed,
                    refused, started, lock, budget, rankVars >>

\* get_status, line 105: then job.error is read, and the dict is returned.
GetStatusReturn ==
    /\ reader.op = "get_status" /\ reader.pc = "error"
    /\ reader' = IdleReader(Response("status", << reader.seen[1], Job(reader).error >>))
    /\ UNCHANGED << jobs, usedIds, queue, shutdown, worker, caller, resets, handed,
                    refused, started, lock, budget, rankVars >>

\* get_result, line 114, left operand: job.status != JobStatus.completed.
GetResultReadStatus ==
    /\ reader.op = "get_result" /\ reader.pc = "status"
    /\ reader' = IF Job(reader).status # "completed"
                   THEN IdleReader(Response("NotReady", None))
                   ELSE [reader EXCEPT !.pc = "check"]
    /\ UNCHANGED << jobs, usedIds, queue, shutdown, worker, caller, resets, handed,
                    refused, started, lock, budget, rankVars >>

\* get_result, line 114, right operand: not job.result.
GetResultCheck ==
    /\ reader.op = "get_result" /\ reader.pc = "check"
    /\ reader' = IF Job(reader).result = None
                   THEN IdleReader(Response("NotReady", None))
                   ELSE [reader EXCEPT !.pc = "return"]
    /\ UNCHANGED << jobs, usedIds, queue, shutdown, worker, caller, resets, handed,
                    refused, started, lock, budget, rankVars >>

\* get_result, line 116: return job.result, read again.
GetResultReturn ==
    /\ reader.op = "get_result" /\ reader.pc = "return"
    /\ reader' = IdleReader(Response("result", Job(reader).result))
    /\ UNCHANGED << jobs, usedIds, queue, shutdown, worker, caller, resets, handed,
                    refused, started, lock, budget, rankVars >>

\* get_validation_report, line 149: not job.result.
GetValidationReportCheck ==
    /\ reader.op = "get_validation_report" /\ reader.pc = "check"
    /\ reader' = IF Job(reader).result = None
                   THEN IdleReader(Response("NotFound", None))
                   ELSE [reader EXCEPT !.pc = "return"]
    /\ UNCHANGED << jobs, usedIds, queue, shutdown, worker, caller, resets, handed,
                    refused, started, lock, budget, rankVars >>

\* get_validation_report, line 151: job.result.validation, job.result read
\* again; on None the attribute access raises AttributeError.
GetValidationReportReturn ==
    /\ reader.op = "get_validation_report" /\ reader.pc = "return"
    /\ reader' = IF Job(reader).result = None
                   THEN IdleReader(Response("AttributeError", None))
                   ELSE IdleReader(Response("validation",
                                            Some(Job(reader).result[1].validation)))
    /\ UNCHANGED << jobs, usedIds, queue, shutdown, worker, caller, resets, handed,
                    refused, started, lock, budget, rankVars >>

ReadOperations == {"get_status", "get_result", "get_validation_report"}

\* ------------------------------------------------------------- pool threads
\* Mutant of TakeTask: the pool starts a thread for every queued task, as if
\* max_workers were not set.
TakeTaskWithoutLimit ==
    /\ queue # << >>
    /\ worker' = worker (+) SetToBag({TaskTaken(Head(queue))})
    /\ queue' = Tail(queue)
    /\ UNCHANGED << jobs, usedIds, shutdown, caller, resets, handed, refused, started >>
    /\ UNCHANGED << lock, budget, reader, rankVars >>

\* ThreadPoolExecutor(max_workers=4): a free pool thread takes the oldest queued
\* task.
TakeTask ==
    /\ BagCardinality(worker) < MaxWorkers
    /\ queue # << >>
    /\ worker' = worker (+) SetToBag({TaskTaken(Head(queue))})
    /\ queue' = Tail(queue)
    /\ UNCHANGED << jobs, usedIds, shutdown, caller, resets, handed, refused, started >>
    /\ UNCHANGED << lock, budget, reader, rankVars >>

\* Mutant of LockOnLeavingBlock: the try block is indented under the first
\* `with _jobs_lock`, so the thread keeps the lock while it runs the stages.
LockKeptForStages(u) == Some(u)

\* The `with _jobs_lock` block of lines 36-42 ends before the try block: the pool
\* thread u has released the lock when it goes on to the pipeline stages.
LockOnLeavingBlock(u) == None

\* _run_pipeline, lines 36-42: set running and copy the request, or return.
RunPipelineStart(t) ==
    /\ t.pc = "start"
    /\ lock = None
    /\ LET j == t.job_id
           u == [t EXCEPT !.pc = "pipeline", !.request = Some(jobs[j].request)]
       IN
        IF ~Present(j)
          THEN /\ worker' = Release(t)
               /\ UNCHANGED << jobs, started, lock >>
          ELSE /\ worker' = Replace(t, u)
               /\ started' = [started EXCEPT ![j] = @ + 1]
               /\ jobs' = [jobs EXCEPT ![j].status = "running"]
               /\ lock' = LockOnLeavingBlock(u)
    /\ UNCHANGED << usedIds, queue, shutdown, caller, resets, handed, refused >>
    /\ UNCHANGED << budget, reader, rankVars >>

\* The stages are a function of the thread's copy of the request and of where the
\* run faults: RunStages, tabulated over the requests a job can hold.
StageTable ==
    { << request, fault, RunStages(request, fault) >> :
        request \in AnalyzePlotRequests, fault \in Faults }

StagesOf(request, fault) ==
    (CHOOSE row \in StageTable : row[1] = request /\ row[2] = fault)[3]

\* The ways a run on that request can end, one for every fault.
RunTable ==
    { << request, { RunStages(request, fault) : fault \in Faults } >> :
        request \in AnalyzePlotRequests }

RunsOf(request) == (CHOOSE row \in RunTable : row[1] = request)[2]

\* Mutant of TerminalWrite: the defensive `except Exception` branch is missing,
\* so a run that raises there writes nothing.
TerminalWriteWithoutCatchAll(current, run) ==
    CASE run.outcome = "ok" ->
           [current EXCEPT !.result = run.result, !.status = "completed"]
      [] run.outcome = "ExternalServiceError" ->
           [current EXCEPT !.status = "failed", !.error = Some(ErrEnvironment)]
      [] run.outcome = "Exception" -> current

\* What a run holds assembled when it has no decision yet.
PartialResult(request) ==
    DesignResult(BuildOutputs(request, << >>, 0), << >>,
                 Evaluate(request, FetchEnvironmentalProfile(request.location), << >>))

\* Mutant of TerminalWrite: the failure branches also store the result that was
\* being assembled.
TerminalWriteKeepsPartialResult(current, run) ==
    CASE run.outcome = "ok" ->
           [current EXCEPT !.result = run.result, !.status = "completed"]
      [] run.outcome = "ExternalServiceError" ->
           [current EXCEPT !.status = "failed", !.error = Some(ErrEnvironment),
                           !.result = Some(PartialResult(current.request))]
      [] run.outcome = "Exception" ->
           [current EXCEPT !.status = "failed", !.error = Some(ErrUnexpected),
                           !.result = Some(PartialResult(current.request))]

\* Mutant of TerminalWrite: one `except Exception` clause handles every fault,
\* so an environmental fault is recorded as an unexpected one.
TerminalWriteSingleHandler(current, run) ==
    CASE run.outcome = "ok" ->
           [current EXCEPT !.result = run.result, !.status = "completed"]
      [] run.outcome \in {"ExternalServiceError", "Exception"} ->
           [current EXCEPT !.status = "failed", !.error = Some(ErrUnexpected)]

\* What the terminal critical section writes on the record `current`.
TerminalWrite(current, run) ==
    CASE run.outcome = "ok" ->
           [current EXCEPT !.result = run.result, !.status = "completed"]
      [] run.outcome = "ExternalServiceError" ->
           [current EXCEPT !.status = "failed", !.error = Some(ErrEnvironment)]
      [] run.outcome = "Exception" ->
           [current EXCEPT !.status = "failed", !.error = Some(ErrUnexpected)]

\* Mutant of RunPipelineFinish: the terminal blocks have no `if not current:
\* return` and write with _jobs.setdefault(job_id, JobRecord(request=request)),
\* so a record that was removed is stored again.
RunPipelineFinishReinserts(t) ==
    /\ t.pc = "pipeline"
    /\ lock \in {None, Some(t)}
    /\ worker' = Release(t)
    /\ lock' = None
    /\ \E run \in RunsOf(t.request[1]) :
        LET j == t.job_id
            current == IF Present(j) THEN jobs[j]
                       ELSE JobRecord(j, CreationInstant, t.request[1])
        IN jobs' = [jobs EXCEPT ![j] = TerminalWrite(current, run)]
    /\ UNCHANGED << usedIds, queue, shutdown, caller, resets, handed, refused, started >>
    /\ UNCHANGED << budget, reader, rankVars >>

\* Mutant of RunPipelineFinish: the stages take the request from the record at
\* the time of the terminal write instead of the copy made at line 42.
RunPipelineFinishRereadsRequest(t) ==
    /\ t.pc = "pipeline"
    /\ lock \in {None, Some(t)}
    /\ worker' = Release(t)
    /\ lock' = None
    /\ LET j == t.job_id
       IN IF Present(j)
            THEN \E run \in RunsOf(jobs[j].request) :
                    jobs' = [jobs EXCEPT ![j] = TerminalWrite(jobs[j], run)]
            ELSE jobs' = jobs
    /\ UNCHANGED << usedIds, queue, shutdown, caller, resets, handed, refused, started >>
    /\ UNCHANGED << budget, reader, rankVars >>

\* _run_pipeline, lines 45-73: the stages run outside the lock on the thread's
\* own copy of the request and end normally or raise ExternalServiceError or
\* another Exception; then the terminal write under the lock, or return.
RunPipelineFinish(t) ==
    /\ t.pc = "pipeline"
    /\ lock \in {None, Some(t)}
    /\ worker' = Release(t)
    /\ lock' = None
    /\ \E run \in RunsOf(t.request[1]) :
        LET j == t.job_id
        IN jobs' = IF Present(j)
                     THEN [jobs EXCEPT ![j] = TerminalWrite(jobs[j], run)]
                     ELSE jobs
    /\ UNCHANGED << usedIds, queue, shutdown, caller, resets, handed, refused, started >>
    /\ UNCHANGED << budget, reader, rankVars >>

Next ==
    \/ \E c \in Callers, request \in AnalyzePlotRequests : AnalyzePlot(c, request)
    \/ \E c \in Callers, j \in JobIds, requirements \in RequirementInputs :
          Regenerate(c, j, requirements)
    \/ \E c \in Callers : SubmitPipeline(c)
    \/ \E c \in Callers : RecordRejected(c)
    \/ ShutdownExecutor
    \/ ClearJobs
    \/ TakeTask
    \/ \E t \in Busy : RunPipelineStart(t)
    \/ \E t \in Busy : RunPipelineFinish(t)

Spec == Init /\ [][Next]_vars

\* The store under load: more calls than the pool has threads.
PoolInit ==
    /\ StoreInit
    /\ budget = MaxPoolCalls
    /\ RankIdle

\* Under load one job is submitted and then regenerated, and every call carries
\* the sample request.
PoolRequirements == RequirementInput(TRUE)

PoolRequest == CHOOSE request \in AnalyzePlotRequests : request.requirements = PoolRequirements

PoolNext ==
    \/ \E c \in Callers : usedIds = {} /\ AnalyzePlot(c, PoolRequest)
    \/ \E c \in Callers, j \in JobIds : Regenerate(c, j, PoolRequirements)
    \/ \E c \in Callers : SubmitPipeline(c)
    \/ \E c \in Callers : RecordRejected(c)
    \/ ShutdownExecutor
    \/ ClearJobs
    \/ TakeTask
    \/ \E t \in Busy : RunPipelineStart(t)
    \/ \E t \in Busy : RunPipelineFinish(t)

PoolSpec == PoolInit /\ [][PoolNext]_vars

\* The store with a thread that calls the read operations while one job is
\* submitted, run and regenerated.
ReadNext ==
    \/ PoolNext
    \/ \E op \in ReadOperations, j \in JobIds : ReaderLookup(op, j)
    \/ GetStatusReadStatus
    \/ GetStatusReturn
    \/ GetResultReadStatus
    \/ GetResultCheck
    \/ GetResultReturn
    \/ GetValidationReportCheck
    \/ GetValidationReportReturn

ReadSpec == Init /\ [][ReadNext]_vars

\* ------------------------------------------------- the decision pipeline
storeVars == << jobs, usedIds, queue, shutdown, worker, caller, resets, handed,
                refused, started, lock, budget, reader >>

\* Valid requests: southern and northern latitudes, eastern and western
\* longitudes, both road sides, vastu applied or not.
RankRequests ==
    { [location |-> [lat |-> lat, lon |-> lon],
       plot |-> [orientation |-> "north", road_facing |-> road],
       requirements |-> r] :
        lat \in {-34, 13}, lon \in {-58, 78}, road \in {"east", "west"},
        r \in RequirementInputs }

\* The two engines: OrchestratorAgent.execute and design_graph.invoke, whose
\* entry point is the architect node.
RankEntries == {"execute", "architect"}

\* A call of the pipeline with a request and the profile derived for it:
\* execute(payload, environmental), or design_graph.invoke of the initial state
\* {payload, environmental, agent_results: [], decisions: []}.
RankInit ==
    /\ StoreInit
    /\ budget = 0
    /\ node \in RankEntries
    /\ \E request \in RankRequests :
          pipeline = [payload |-> request,
                      environmental |-> FetchEnvironmentalProfile(request.location),
                      agent_results |-> << >>, decisions |-> << >>]

\* execute, line 112: results = [agent.run(payload, environmental) for agent in ...]
ExecuteCollect ==
    /\ node = "execute"
    /\ pipeline' = [pipeline EXCEPT
                       !.agent_results = RunAgents(pipeline.payload, pipeline.environmental)]
    /\ node' = "sorted"
    /\ UNCHANGED storeVars

\* execute, lines 113-122: sort the results and return the decisions.
ExecuteReturn ==
    /\ node = "sorted"
    /\ pipeline' = [pipeline EXCEPT !.decisions = Rank(pipeline.agent_results)]
    /\ node' = "return"
    /\ UNCHANGED storeVars

\* An agent node of the graph: its result is appended to agent_results by the
\* reducer _append_result, and the edge leads to the next node.
GraphAgentNode(name) ==
    /\ node = name
    /\ pipeline' = [pipeline EXCEPT
                       !.agent_results = @ \o << GraphNodeResult(name, pipeline) >>]
    /\ node' = GraphEdge(name)
    /\ UNCHANGED storeVars

\* compile_decisions_node, then the edge to END.
GraphCompileDecisions ==
    /\ node = "compile_decisions"
    /\ pipeline' = [pipeline EXCEPT !.decisions = CompileDecisionsNode(pipeline)]
    /\ node' = GraphEdge("compile_decisions")
    /\ UNCHANGED storeVars

RankNext ==
    \/ ExecuteCollect
    \/ ExecuteReturn
    \/ \E name \in AgentNames : GraphAgentNode(name)
    \/ GraphCompileDecisions

RankSpec == RankInit /\ [][RankNext]_vars

\* design_graph.invoke(initial): from the node `name` along the edges to END,
\* every agent node appending its result, compile_decisions_node writing the
\* decisions.
RECURSIVE GraphInvokeFrom(_, _)
GraphInvokeFrom(name, state) ==
    IF name = "compile_decisions"
      THEN CompileDecisionsNode(state)
      ELSE GraphInvokeFrom(GraphEdge(name),
                           [state EXCEPT !.agent_results =
                                            @ \o << GraphNodeResult(name, state) >>])

\* Raw score (tenths) and weight (hundredths) of a candidate: 6.4 * 0.8 and
\* 6.1 * 0.84 differ and both round to 5.12; 8.0 * 0.9 and 7.2 * 1.0 are the
\* same double.
CandidatePairs == { << 64, 80 >>, << 61, 84 >>, << 80, 90 >>, << 72, 100 >> }

\* Lists of up to MaxCandidates results, the i-th from the i-th declared
\* specialist, as line 112 of execute and the nodes of the graph build them.
CandidateLists ==
    UNION { { [i \in 1 .. n |->
                 AgentResult(AgentOrder[i], << "candidate" >>, "reasoning",
                             pairs[i][1], pairs[i][2])] :
              pairs \in [1 .. n -> CandidatePairs] } : n \in 0 .. MaxCandidates }

\* The ranking on its own: execute at line 113 with `results`, or the graph at
\* compile_decisions with state["agent_results"], holding any such list.
CandidateInit ==
    /\ StoreInit
    /\ budget = 0
    /\ node \in {"sorted", "compile_decisions"}
    /\ \E results \in CandidateLists :
          pipeline = [payload |-> PoolRequest,
                      environmental |-> FetchEnvironmentalProfile(PoolRequest.location),
                      agent_results |-> results, decisions |-> << >>]

CandidateNext ==
    \/ ExecuteReturn
    \/ GraphCompileDecisions

CandidateSpec == CandidateInit /\ [][CandidateNext]_vars

\* ------------------------------------------ the stages of one run, alone
\* Requests for the stages: both hemispheres, eastern and western longitudes,
\* orientations that do and do not start like the preferred exposure, vastu
\* applied or not.
StageRequests ==
    { [location |-> [lat |-> lat, lon |-> lon],
       plot |-> [orientation |-> orientation, road_facing |-> "east"],
       requirements |-> r] :
        lat \in {-34, 13}, lon \in {-58, 78}, orientation \in {"north", "South", "east"},
        r \in RequirementInputs }

\* The locals of the try block of _run_pipeline: request, environmental and
\* decisions as given, validation and summary not assigned yet, and the result
\* that line 53 stores on the job.
StageLocals(request, env, decision_list) ==
    [payload |-> request, environmental |-> env, agent_results |-> << >>,
     decisions |-> decision_list, validation |-> None, summary |-> None,
     result |-> None]

\* _run_pipeline, line 47: validation = _validator.evaluate(request,
\* environmental, decisions).
StageEvaluate ==
    /\ node = "evaluate"
    /\ pipeline' = [pipeline EXCEPT
                       !.validation = Some(Evaluate(pipeline.payload, pipeline.environmental,
                                                    pipeline.decisions))]
    /\ node' = "build_outputs"
    /\ UNCHANGED storeVars

\* _run_pipeline, line 45: environmental = fetch_environmental_profile(...)
StageFetch ==
    /\ node = "fetch"
    /\ pipeline' = [pipeline EXCEPT
                       !.environmental = FetchEnvironmentalProfile(pipeline.payload.location)]
    /\ node' = "execute"
    /\ UNCHANGED storeVars

\* _run_pipeline, line 46: decisions = _orchestrator.execute(request, environmental)
StageExecute ==
    /\ node = "execute"
    /\ pipeline' = [pipeline EXCEPT
                       !.decisions = Execute(pipeline.payload, pipeline.environmental)]
    /\ node' = "evaluate"
    /\ UNCHANGED storeVars

\* Mutant of StageBuildOutputs: build_outputs is given validation.sunlight_score.
StageBuildOutputsFromSunlight ==
    /\ node = "build_outputs"
    /\ pipeline' = [pipeline EXCEPT
                       !.summary = Some(BuildOutputs(pipeline.payload, pipeline.decisions,
                                                     pipeline.validation[1].sunlight_score))]
    /\ node' = "store"
    /\ UNCHANGED storeVars

\* _run_pipeline, line 48: files, summary = _processor.build_outputs(request,
\* decisions, validation.structural_score)
StageBuildOutputs ==
    /\ node = "build_outputs"
    /\ pipeline' = [pipeline EXCEPT
                       !.summary = Some(BuildOutputs(pipeline.payload, pipeline.decisions,
                                                     pipeline.validation[1].structural_score))]
    /\ node' = "store"
    /\ UNCHANGED storeVars

\* _run_pipeline, lines 53-54: the DesignResult that is stored with completed.
StageStore ==
    /\ node = "store"
    /\ pipeline' = [pipeline EXCEPT
                       !.result = Some(DesignResult(pipeline.summary[1], pipeline.decisions,
                                                    pipeline.validation[1]))]
    /\ node' = "completed"
    /\ UNCHANGED storeVars

\* A run that holds a request and has not entered the try block.
StageInit ==
    /\ StoreInit
    /\ budget = 0
    /\ node = "fetch"
    /\ \E request \in StageRequests : pipeline = StageLocals(request, None, << >>)

StageNext ==
    \/ StageFetch
    \/ StageExecute
    \/ StageEvaluate
    \/ StageBuildOutputs
    \/ StageStore

StageSpec == StageInit /\ [][StageNext]_vars

\* Decision lists for the validator: what execute returns, without the
\* decisions of the specialists in `dropped`.
Without(decision_list, dropped) ==
    LET Kept(d) == d.agent \notin dropped
    IN SelectSeq(decision_list, Kept)

\* evaluate on its own: a request, its profile and a list of decisions with or
\* without the meteorologist's and the structural engineer's.
ValidatorInit ==
    /\ StoreInit
    /\ budget = 0
    /\ node = "evaluate"
    /\ \E request \in StageRequests,
          dropped \in SUBSET {"meteorologist", "structural_engineer"} :
          LET env == FetchEnvironmentalProfile(request.location)
          IN pipeline = StageLocals(request, env, Without(Execute(request, env), dropped))

ValidatorSpec == ValidatorInit /\ [][StageEvaluate]_vars

\* ----------------------------------------- one job, every call on it
\* One job is submitted with the sample request and regenerated with any
\* requirements, while the pool runs it and a reader is inside the accessors.
FrameNext ==
    \/ \E c \in Callers : usedIds = {} /\ AnalyzePlot(c, PoolRequest)
    \/ \E c \in Callers, j \in JobIds, requirements \in RequirementInputs :
          Regenerate(c, j, requirements)
    \/ \E c \in Callers : SubmitPipeline(c)
    \/ \E c \in Callers : RecordRejected(c)
    \/ ShutdownExecutor
    \/ ClearJobs
    \/ TakeTask
    \/ \E t \in Busy : RunPipelineStart(t)
    \/ \E t \in Busy : RunPipelineFinish(t)
    \/ \E op \in ReadOperations, j \in JobIds : ReaderLookup(op, j)
    \/ GetStatusReadStatus
    \/ GetStatusReturn
    \/ GetResultReadStatus
    \/ GetResultCheck
    \/ GetResultReturn
    \/ GetValidationReportCheck
    \/ GetValidationReportReturn

FrameSpec == Init /\ [][FrameNext]_vars

\* ------------------------------------- environmental derivation, called twice
\* The coordinates of the two calls: both hemispheres and the equator.
EnvLocations == { [lat |-> lat, lon |-> lon] : lat \in {-34, 0, 13}, lon \in {-58, 78} }

\* The readings of datetime.now(UTC) a call can get.
Instants == {1, 2}

\* The dict fetch_environmental_profile returns at the instant now.
ProfileAt(location, now) ==
    FetchEnvironmentalProfile(location) @@ [collected_at |-> now]

\* A thread that calls the service twice with the same coordinates; answers
\* holds what the calls returned so far.
EnvInit ==
    /\ StoreInit
    /\ budget = 1
    /\ node = "first"
    /\ \E location \in EnvLocations : pipeline = [location |-> location, answers |-> << >>]

\* EnvironmentalService().fetch_environmental_profile(location), the first call.
EnvFirstCall ==
    /\ node = "first"
    /\ \E now \in Instants :
          pipeline' = [pipeline EXCEPT
                          !.answers = Append(@, ProfileAt(pipeline.location, now))]
    /\ node' = "second"
    /\ UNCHANGED storeVars

\* The second call, with the same coordinates, not earlier than the first.
EnvSecondCall ==
    /\ node = "second"
    /\ \E now \in Instants :
          /\ now >= pipeline.answers[1].collected_at
          /\ pipeline' = [pipeline EXCEPT
                             !.answers = Append(@, ProfileAt(pipeline.location, now))]
    /\ node' = "done"
    /\ UNCHANGED storeVars

\* The two calls interleaved with the submission and the run of a job.
EnvNext ==
    \/ EnvFirstCall
    \/ EnvSecondCall
    \/ \E c \in Callers : AnalyzePlot(c, PoolRequest)
    \/ \E c \in Callers : SubmitPipeline(c)
    \/ TakeTask
    \/ \E t \in Busy : RunPipelineStart(t)
    \/ \E t \in Busy : RunPipelineFinish(t)

EnvSpec == EnvInit /\ [][EnvNext]_vars

\* Fair scheduling: a thread that can take its next step eventually takes it.
\* Request threads finish the call they are in; pool threads take queued tasks
\* and run them to the end.  No fairness is assumed of new calls, of the
\* shutdown or of the deletion of jobs.
Fairness ==
    /\ WF_vars(\E c \in Callers : SubmitPipeline(c) \/ RecordRejected(c))
    /\ WF_vars(TakeTask)
    /\ WF_vars(\E t \in Busy : RunPipelineStart(t))
    /\ WF_vars(\E t \in Busy : RunPipelineFinish(t))

FairSpec == Spec /\ Fairness

\* --------------------------------------------------------------- vocabulary
Terminal == {"completed", "failed"}

\* The pool threads that are inside _run_pipeline for id j, between the
\* critical section that set running and the terminal write.
RunsInProgress(j) ==
    LET S == { t \in Busy : t.pc = "pipeline" /\ t.job_id = j }
        RECURSIVE Total(_)
        Total(T) == IF T = {} THEN 0
                    ELSE LET t == CHOOSE u \in T : TRUE
                         IN CopiesIn(t, worker) + Total(T \ {t})
    IN Total(S)

\* The tasks for id j that the pool holds and that have not reached line 36.
TasksWaiting(j) ==
    Cardinality({ i \in 1 .. Len(queue) : queue[i] = j })
    + CopiesIn(TaskTaken(j), worker)

\* The calls that have reset id j and have not called _executor.submit yet.
DispatchesDue(j) ==
    Cardinality({ c \in Callers : caller[c].pc = "dispatch" /\ caller[c].job_id = j })

\* ------------------------------------------------------------------- C1
\* C1: in every reachable state each stored job has a result exactly when its
\* status is completed, and an error exactly when its status is failed.
C1_ResultAndErrorMatchStatus ==
    \A j \in JobIds : Present(j) =>
        /\ (jobs[j].result # None) <=> (jobs[j].status = "completed")
        /\ (jobs[j].error # None) <=> (jobs[j].status = "failed")

\* ------------------------------------------------------------------- C2
\* C2: for every job id, at most one pool thread is inside _run_pipeline for that
\* id between its set-running step and its terminal write.
C2_OneRunPerJob == \A j \in JobIds : RunsInProgress(j) <= 1

\* ------------------------------------------------------------------- C3
AllowedStatusChanges ==
    { << "pending", "running" >>, << "running", "completed" >>, << "running", "failed" >>,
      << "pending", "failed" >>, << "completed", "pending" >>, << "failed", "pending" >> }

\* C3: every change of a stored job's status is pending to running, running to
\* completed, running to failed, pending to failed, or completed/failed to pending.
C3_StatusChangesAreLifecycleSteps ==
    [][ \A j \in JobIds :
          (Present(j) /\ Present(j)' /\ jobs'[j].status # jobs[j].status)
            => << jobs[j].status, jobs'[j].status >> \in AllowedStatusChanges ]_vars

\* ------------------------------------------------------------------- C4
\* C4: once a job is completed or failed, its status, result and error change
\* only by a regenerate of that id (a state reset of the id).
C4_TerminalUntilRegenerate ==
    [][ \A j \in JobIds :
          (Present(j) /\ Present(j)' /\ jobs[j].status \in Terminal
             /\ << jobs'[j].status, jobs'[j].result, jobs'[j].error >>
                  # << jobs[j].status, jobs[j].result, jobs[j].error >>)
            => resets'[j] = resets[j] + 1 ]_vars

\* ------------------------------------------------------------------- C5
\* C5: under fair scheduling, a stored job that the pool has accepted a task for
\* eventually is completed or failed (or is no longer stored), whatever the
\* outcome of its runs.
C5_AcceptedJobsReachTerminal ==
    \A j \in JobIds :
        (Present(j) /\ handed[j] > 0) ~> (~Present(j) \/ jobs[j].status \in Terminal)

\* A job whose run raised an Exception other than ExternalServiceError is failed
\* with the 'Unexpected failure' error, and no thread is working for it any more.
C5_Witness ==
    \E j \in JobIds :
        /\ Present(j) /\ handed[j] > 0
        /\ jobs[j].status = "failed" /\ jobs[j].error = Some(ErrUnexpected)
        /\ RunsInProgress(j) = 0 /\ TasksWaiting(j) = 0 /\ DispatchesDue(j) = 0

\* ------------------------------------------------------------------- C6
\* C6: when _executor.submit raises because the pool is shut down, the dispatch
\* hands no task to the pool and starts no run; _submit_pipeline then sets the
\* stored job to failed with the 'Failed to enqueue job' error and the call
\* returns pending to its caller instead of raising; and every run that has
\* started or waits in the pool comes from a dispatch the pool accepted.
C6_RejectedDispatchFailsJob ==
    /\ [](\A j \in JobIds : started[j] + TasksWaiting(j) <= handed[j])
    /\ [][ \A c \in Callers :
            LET j == caller[c].job_id IN
            /\ (caller[c].pc = "dispatch" /\ shutdown /\ caller'[c] # caller[c])
                 => /\ caller'[c].pc = "rejected"
                    /\ refused'[j] = refused[j] + 1
                    /\ UNCHANGED << jobs, queue, worker, handed, started >>
            /\ (caller[c].pc = "rejected" /\ caller'[c] # caller[c])
                 => /\ caller'[c].pc = "idle" /\ caller'[c].resp = "pending"
                    /\ Present(j) => /\ jobs'[j].status = "failed"
                                     /\ jobs'[j].error = Some(ErrEnqueue)
                    /\ UNCHANGED << queue, worker, handed, started >> ]_vars

\* A job whose only dispatch was rejected: failed with the enqueue error, never
\* run, and the call has returned pending.
C6_Witness ==
    \E j \in JobIds, c \in Callers :
        /\ Present(j) /\ refused[j] = 1 /\ handed[j] = 0 /\ started[j] = 0
        /\ jobs[j].status = "failed" /\ jobs[j].error = Some(ErrEnqueue)
        /\ caller[c].pc = "idle" /\ caller[c].resp = "pending"
        /\ DispatchesDue(j) = 0

\* ------------------------------------------------------------------- C7
\* A stored job that was submitted, never regenerated, and whose dispatch the
\* pool has not rejected.
NeverRegenerated(j) == Present(j) /\ resets[j] = 1 /\ refused[j] = 0

\* C7: a job that is submitted, accepted by the pool and never regenerated or
\* deleted starts pending, changes status only pending -> running -> completed or
\* failed, does not change once completed or failed, and then has a result
\* exactly when it is completed.
C7_SingleRunLifecycle ==
    [][ \A j \in JobIds : NeverRegenerated(j)' =>
          /\ ~Present(j) => jobs'[j].status = "pending"
          /\ (Present(j) /\ jobs'[j].status # jobs[j].status)
               => << jobs[j].status, jobs'[j].status >> \in
                    { << "pending", "running" >>, << "running", "completed" >>,
                      << "running", "failed" >> }
          /\ (Present(j) /\ jobs[j].status \in Terminal) => jobs'[j] = jobs[j]
          /\ jobs'[j].status \in Terminal
               => ((jobs'[j].result # None) <=> (jobs'[j].status = "completed")) ]_vars

\* Both jobs were run once and never regenerated: one is completed with a
\* result, the other failed without one.
C7_Witness ==
    \E j, k \in JobIds :
        /\ NeverRegenerated(j) /\ started[j] = 1
        /\ jobs[j].status = "completed" /\ jobs[j].result # None
        /\ NeverRegenerated(k) /\ started[k] = 1
        /\ jobs[k].status = "failed" /\ jobs[k].result = None

\* ------------------------------------------------------------------- C8
\* A step is a regenerate that found job j: it is the only step that resets an
\* id that is already stored.
RegenerateStepOn(j) == Present(j) /\ resets'[j] = resets[j] + 1

\* regenerate's critical section sets pending, clears result and error, replaces
\* the requirements and keeps location and plot; its caller goes on to dispatch j.
C8_ResetPart ==
    \A j \in JobIds : RegenerateStepOn(j) =>
        /\ jobs'[j].status = "pending"
        /\ jobs'[j].result = None /\ jobs'[j].error = None
        /\ \E requirements \in RequirementInputs :
              jobs'[j].request = [jobs[j].request EXCEPT !.requirements = requirements]
        /\ \E c \in Callers :
              /\ caller[c].pc = "idle"
              /\ caller'[c].pc = "dispatch" /\ caller'[c].op = "regenerate"
              /\ caller'[c].job_id = j

\* the dispatch of a regenerate hands the id to the pool once (or is rejected),
\* and the call returns pending.
C8_DispatchPart ==
    \A c \in Callers :
        (caller[c].op = "regenerate" /\ caller'[c] # caller[c]) =>
            /\ (caller[c].pc = "dispatch" /\ ~shutdown)
                 => /\ queue' = Append(queue, caller[c].job_id)
                    /\ caller'[c].pc = "idle"
            /\ caller'[c].pc = "idle" => caller'[c].resp = "pending"

\* the first successful terminal write after a reset (the stored result is still
\* None) stores the result computed from the request the job holds, that is,
\* from the requirements of the latest regenerate.
C8_FreshResultPart ==
    \A j \in JobIds :
        (Present(j) /\ Present(j)' /\ jobs[j].result = None /\ jobs'[j].result # None)
          => jobs'[j].result = RunStages(jobs[j].request, "none").result

\* C8: regenerate on a stored job resets it in one critical section, dispatches
\* it and returns pending, and the next run that completes successfully stores a
\* result computed from the new requirements.
C8_RegenerateThenFreshResult ==
    [][ C8_ResetPart /\ C8_DispatchPart /\ C8_FreshResultPart ]_vars

\* ------------------------------------------------------------------- C9
\* C9: a regenerate call with an id that is not stored answers NotFound, leaves
\* the job map and every record as they are, and hands nothing to the pool:
\* only an id that is stored is ever dispatched by a regenerate.
C9_RegenerateUnknownIsNotFound ==
    [][ /\ \A c \in Callers, j \in JobIds, requirements \in RequirementInputs :
             (~Present(j) /\ Regenerate(c, j, requirements))
               => /\ caller'[c].pc = "idle" /\ caller'[c].resp = "NotFound"
                  /\ UNCHANGED << jobs, usedIds, queue, worker, resets, handed, refused, started >>
        /\ \A c \in Callers :
             (caller'[c].resp = "NotFound" /\ caller'[c] # caller[c])
               => UNCHANGED << jobs, usedIds, queue, worker, resets, handed, refused, started >>
        /\ \A c \in Callers :
             (caller[c].pc = "idle" /\ caller'[c].op = "regenerate")
               => Present(caller'[c].job_id) ]_vars

\* A regenerate has answered NotFound while another job is stored and the pool
\* is at rest.
C9_Witness ==
    \E c \in Callers, j \in JobIds :
        /\ caller[c].pc = "idle" /\ caller[c].resp = "NotFound"
        /\ Present(j) /\ jobs[j].status = "completed"
        /\ queue = << >> /\ worker = EmptyBag

\* ------------------------------------------------------------------ C10
\* analyze_plot's critical section: one record is added, under an id that was
\* never used, pending and without result or error; the others stay as they are
\* and nothing is handed to the pool yet.
C10_StorePart ==
    \A c \in Callers :
        (caller[c].pc = "idle" /\ caller'[c].op = "analyze_plot") =>
            LET j == caller'[c].job_id IN
            /\ caller'[c].pc = "dispatch"
            /\ j \in JobIds /\ j \notin usedIds /\ ~Present(j)
            /\ \E request \in AnalyzePlotRequests :
                  jobs'[j] = [job_id |-> j, created_at |-> CreationInstant,
                              status |-> "pending", request |-> request,
                              result |-> None, error |-> None]
            /\ \A k \in JobIds \ {j} : jobs'[k] = jobs[k]
            /\ resets'[j] = 1
            /\ UNCHANGED << queue, worker, handed, refused, started >>

\* analyze_plot's dispatch: the id is appended to the pool's queue once, unless
\* the pool rejects it, and the call returns pending.
C10_DispatchPart ==
    \A c \in Callers :
        (caller[c].op = "analyze_plot" /\ caller'[c] # caller[c]) =>
            LET j == caller[c].job_id IN
            /\ (caller[c].pc = "dispatch" /\ ~shutdown)
                 => /\ queue' = Append(queue, j)
                    /\ handed'[j] = handed[j] + 1
                    /\ caller'[c].pc = "idle"
            /\ caller'[c].pc = "idle" => caller'[c].resp = "pending"
            /\ UNCHANGED << worker, started >>

\* Until it is regenerated, a submitted id has been dispatched at most once, and
\* exactly once when the submitting call has returned.
C10_DispatchedOnce ==
    \A j \in usedIds : resets[j] = 1 =>
        handed[j] + refused[j] + DispatchesDue(j) = 1

\* The call never waits for the pool: in each of its positions its next step is
\* enabled whatever the pool threads are doing.
C10_NeverWaits ==
    \A c \in Callers :
        /\ caller[c].pc = "dispatch" => ENABLED SubmitPipeline(c)
        /\ caller[c].pc = "rejected" => ENABLED RecordRejected(c)

\* C10: analyze_plot adds exactly one new job under an id not in the store
\* before, pending with result and error None, leaves the other records
\* unchanged, dispatches the id to the pool exactly once, and returns pending
\* without waiting for any pipeline stage.
C10_SubmitAddsOneJobAndDispatchesOnce ==
    /\ [](C10_DispatchedOnce /\ C10_NeverWaits)
    /\ [][ C10_StorePart /\ C10_DispatchPart ]_vars

\* Job k was submitted while job j is inside its pipeline: its call has returned
\* pending, its task waits in the pool, and no run of it has started.
C10_Witness ==
    \E j, k \in JobIds, c \in Callers :
        /\ j # k /\ Present(j) /\ Present(k)
        /\ RunsInProgress(j) = 1
        /\ resets[k] = 1 /\ handed[k] = 1 /\ TasksWaiting(k) = 1 /\ started[k] = 0
        /\ jobs[k].status = "pending" /\ jobs[k].result = None /\ jobs[k].error = None
        /\ caller[c].pc = "idle" /\ caller[c].resp = "pending"
        /\ DispatchesDue(k) = 0

\* ------------------------------------------------------------------ C11
\* The lookup of a read operation answers NotFound exactly for an id that is not
\* stored.
C11_LookupPart ==
    \A op \in ReadOperations, j \in JobIds :
        ReaderLookup(op, j) =>
            IF Present(j) THEN reader'.pc # "idle" /\ reader'.job_id = j
            ELSE reader'.pc = "idle" /\ reader'.resp.kind = "NotFound"

\* get_result on a stored job answers NotReady when it reads a status other than
\* completed, and otherwise NotReady or a result that is not None and is the
\* result the record holds.
C11_GetResultPart ==
    (reader.op = "get_result" /\ reader'.pc # reader.pc) =>
        /\ (reader.pc = "status" /\ Job(reader).status # "completed")
              => reader'.pc = "idle" /\ reader'.resp.kind = "NotReady"
        /\ reader'.pc = "idle" =>
              \/ reader'.resp.kind = "NotReady"
              \/ /\ reader'.resp.kind = "result"
                 /\ reader'.resp.value # None
                 /\ reader'.resp.value = Job(reader).result

\* get_validation_report on a stored job answers NotFound or the validation of
\* a result that is not None; it never reads .validation of None.
C11_GetValidationReportPart ==
    (reader.op = "get_validation_report" /\ reader'.pc # reader.pc /\ reader'.pc = "idle") =>
        \/ reader'.resp.kind = "NotFound"
        \/ /\ reader'.resp.kind = "validation"
           /\ Job(reader).result # None
           /\ reader'.resp.value = Some(Job(reader).result[1].validation)

\* C11: under every interleaving with pool threads and regenerate calls,
\* get_result answers NotFound for an id that is not stored, NotReady for a job
\* that is not completed, and otherwise a DesignResult that is not None and was
\* the job's stored result; get_validation_report answers NotFound or the
\* validation of a stored result that is not None; neither returns None nor
\* reads an attribute of None.
C11_ReadsNeverSeeNullResult ==
    [][ C11_LookupPart /\ C11_GetResultPart /\ C11_GetValidationReportPart ]_vars

\* ------------------------------------------------------------------ C12
\* The step a thread inside a call takes next, and the steps that begin a call,
\* wait for nothing but the lock.
C12_CallsCanProceed ==
    /\ \A c \in Callers :
          /\ caller[c].pc = "dispatch" => ENABLED SubmitPipeline(c)
          /\ caller[c].pc = "rejected" => ENABLED RecordRejected(c)
          /\ (FirstIdleCaller(c) /\ Calls < budget) =>
                /\ \A request \in AnalyzePlotRequests : ENABLED AnalyzePlot(c, request)
                /\ \A j \in JobIds, requirements \in RequirementInputs :
                      ENABLED Regenerate(c, j, requirements)
    /\ reader.pc = "idle" =>
          \A op \in ReadOperations, j \in JobIds : ENABLED ReaderLookup(op, j)
    /\ (reader.op = "get_status" /\ reader.pc = "status") => ENABLED GetStatusReadStatus
    /\ (reader.op = "get_status" /\ reader.pc = "error") => ENABLED GetStatusReturn
    /\ (reader.op = "get_result" /\ reader.pc = "status") => ENABLED GetResultReadStatus
    /\ (reader.op = "get_result" /\ reader.pc = "check") => ENABLED GetResultCheck
    /\ (reader.op = "get_result" /\ reader.pc = "return") => ENABLED GetResultReturn

\* C12: in every reachable state no pool thread that is running the pipeline
\* stages holds the store lock, and every step of analyze_plot, regenerate,
\* get_status and get_result, the first included, can be taken at once, whatever
\* the pool threads are doing: the calls complete without a worker finishing.
C12_NoLockWhileStagesRun ==
    /\ \A t \in Busy : t.pc = "pipeline" => lock # Some(t)
    /\ (\E t \in Busy : t.pc = "pipeline") => lock = None
    /\ C12_CallsCanProceed

\* A pool thread is inside the stages of job j while a regenerate of j has reset
\* it, dispatched it and returned, and get_status has answered pending.
C12_Witness ==
    \E j \in JobIds, c \in Callers :
        /\ Present(j) /\ RunsInProgress(j) = 1
        /\ BagCardinality(worker) = 1
        /\ resets[j] = 2 /\ handed[j] = 2 /\ started[j] = 1 /\ TasksWaiting(j) = 1
        /\ jobs[j].status = "pending"
        /\ caller[c].pc = "idle" /\ caller[c].resp = "pending"
        /\ reader.pc = "idle" /\ reader.resp = Response("status", << "pending", None >>)

\* ------------------------------------------------------------------ C13
\* The pool threads that have taken a task and have not finished it.
C13_Executions == BagCardinality(worker)

\* A dispatch the pool accepts while all its threads are busy is appended to the
\* queue and no thread starts on it.
C13_AcceptedWhileBusyPart ==
    \A c \in Callers :
        (/\ caller[c].pc = "dispatch" /\ caller'[c].pc = "idle"
         /\ ~shutdown /\ C13_Executions = MaxWorkers) =>
            /\ queue' = Append(queue, caller[c].job_id)
            /\ worker' = worker

\* A task leaves the queue only for a thread that was free, and a run sets
\* running only on a thread that has taken its task.
C13_StartPart ==
    /\ (queue # << >> /\ queue' = Tail(queue)) =>
          /\ C13_Executions < MaxWorkers
          /\ worker' = worker (+) SetToBag({TaskTaken(Head(queue))})
    /\ C13_Executions' > C13_Executions => (queue # << >> /\ queue' = Tail(queue))
    /\ \A j \in JobIds :
          started'[j] > started[j] => CopiesIn(TaskTaken(j), worker) > 0

\* C13: at no time are more than 4 executions of _run_pipeline in progress; a
\* dispatch accepted while all 4 pool threads are busy waits in the queue, and
\* its task is started only by a step that finds a thread free.
C13_AtMostFourExecutions ==
    [][ /\ C13_Executions <= MaxWorkers /\ C13_Executions' <= MaxWorkers
        /\ C13_AcceptedWhileBusyPart
        /\ C13_StartPart ]_vars

\* Four pool threads are inside the stages and a fifth accepted task waits in
\* the queue.
C13_Witness ==
    /\ C13_Executions = MaxWorkers
    /\ \A t \in Busy : t.pc = "pipeline"
    /\ Len(queue) = 1
    /\ SumOver(handed, JobIds) = MaxPoolCalls
    /\ SumOver(started, JobIds) = MaxWorkers
    /\ \A c \in Callers : caller[c].pc = "idle"
    /\ ~shutdown

\* ------------------------------------------------------------------ C14
\* The calls of _executor.submit made for id j: those the pool accepted and
\* those it rejected.
C14_Dispatches(j) == handed[j] + refused[j]

\* A state reset of id j puts its caller before the dispatch of j, and a caller
\* before a dispatch leaves it only by calling _executor.submit for that id once.
C14_PairingPart ==
    /\ \A j \in JobIds :
          resets'[j] # resets[j] =>
              /\ resets'[j] = resets[j] + 1
              /\ jobs'[j].status = "pending"
              /\ C14_Dispatches(j)' = C14_Dispatches(j)
              /\ \E c \in Callers :
                    /\ caller[c].pc = "idle"
                    /\ caller'[c].pc = "dispatch" /\ caller'[c].job_id = j
    /\ \A j \in JobIds :
          C14_Dispatches(j)' # C14_Dispatches(j) =>
              /\ C14_Dispatches(j)' = C14_Dispatches(j) + 1
              /\ resets'[j] = resets[j]
              /\ \E c \in Callers :
                    /\ caller[c].pc = "dispatch" /\ caller[c].job_id = j
                    /\ caller'[c].pc # "dispatch"
    /\ \A c \in Callers, j \in JobIds :
          (caller[c].pc = "dispatch" /\ caller[c].job_id = j /\ caller'[c] # caller[c]) =>
              C14_Dispatches(j)' = C14_Dispatches(j) + 1

\* C14: for every job id the dispatches made (tasks handed to the pool, accepted
\* or rejected by it) equal the state resets of that id, but for the calls that
\* have reset the id and are about to dispatch it; every dispatch follows a
\* reset to pending by the same call, and every reset is followed by that
\* call's dispatch.
C14_DispatchesEqualResets ==
    /\ [](\A j \in JobIds : C14_Dispatches(j) + DispatchesDue(j) = resets[j])
    /\ [][ C14_PairingPart ]_vars

\* A job was submitted and regenerated: the pool accepted the first dispatch and,
\* shut down by then, rejected the second, and both calls have returned.
C14_Witness ==
    \E j \in JobIds :
        /\ resets[j] = 2 /\ handed[j] = 1 /\ refused[j] = 1
        /\ DispatchesDue(j) = 0
        /\ \A c \in Callers : caller[c].pc = "idle"

\* ------------------------------------------------------------------ C15
\* A pool thread that starts, a pool thread that reaches its terminal write and
\* a caller that records a rejected dispatch, each for an id that is not in the
\* store, leave the store as it is; the thread or the call still ends.
C15_ReturnsWithoutWritingPart ==
    /\ \A t \in Busy :
          (~Present(t.job_id) /\ RunPipelineStart(t)) =>
              jobs' = jobs /\ worker' = Release(t) /\ started' = started
    /\ \A t \in Busy :
          (~Present(t.job_id) /\ RunPipelineFinish(t)) =>
              jobs' = jobs /\ worker' = Release(t)
    /\ \A c \in Callers :
          (caller[c].pc = "rejected" /\ ~Present(caller[c].job_id) /\ RecordRejected(c)) =>
              jobs' = jobs /\ caller'[c].pc = "idle"

\* C15: an id that has been stored and removed is never stored again, and the
\* pool thread or dispatcher that finds its id removed, at the start of a run,
\* at the terminal write or when it records a rejected dispatch, returns
\* without writing to the store.
C15_DeletedIdNeverReappears ==
    [][ /\ \A j \in JobIds : (j \in usedIds /\ ~Present(j)) => ~Present(j)'
        /\ C15_ReturnsWithoutWritingPart ]_vars

\* The store was cleared with two tasks in the pool: the thread that then
\* started on the one has returned without a run, and the thread that was
\* inside the stages of the other is about to reach its terminal write.
C15_Witness ==
    \E t \in Busy, j \in JobIds :
        /\ t.pc = "pipeline" /\ t.job_id # j
        /\ t.job_id \in usedIds /\ ~Present(t.job_id)
        /\ j \in usedIds /\ ~Present(j)
        /\ handed[j] = 1 /\ started[j] = 0 /\ TasksWaiting(j) = 0

\* ------------------------------------------------------------------ C16
\* What a run that faults at `fault` writes on the record of its job: failed,
\* the message of the environmental derivation or the 'Unexpected failure:'
\* message, and the result the record had.
C16_FaultWritePart ==
    \A t \in Busy :
        (t.pc = "pipeline" /\ Present(t.job_id)) =>
            \A fault \in Faults \ {"none"} :
                LET current == jobs[t.job_id]
                    written == TerminalWrite(current, StagesOf(t.request[1], fault))
                IN /\ written.status = "failed"
                   /\ written.error =
                        IF fault = "environment" THEN Some(ErrEnvironment)
                        ELSE Some(ErrUnexpected)
                   /\ written.result = current.result
                   /\ written.request = current.request

\* The step that ends a run writes what one of the ways its stages can go
\* writes, and gives the thread back to the pool.
C16_RunEndsPart ==
    \A t \in Busy :
        (t.pc = "pipeline" /\ RunPipelineFinish(t)) =>
            /\ worker' = Release(t)
            /\ Present(t.job_id) =>
                  \E fault \in Faults :
                      jobs' = [jobs EXCEPT ![t.job_id] =
                                 TerminalWrite(jobs[t.job_id], StagesOf(t.request[1], fault))]
            /\ (Present(t.job_id) /\ jobs'[t.job_id].status # "completed") =>
                  jobs'[t.job_id].result = jobs[t.job_id].result
            /\ ~Present(t.job_id) => jobs' = jobs

\* C16: a run that faults ends with its thread returned to the pool and, on a
\* stored job, with status failed: error is the environmental derivation's own
\* message for a fault there, and the 'Unexpected failure:' message for a
\* fault in a specialist, in validation or in assembly; the run leaves result
\* as it was.
C16_FaultsBecomeJobState ==
    /\ [] C16_FaultWritePart
    /\ [][ C16_RunEndsPart ]_vars

\* One job has failed on an environmental fault and another on an unexpected
\* one; neither has a result and no run is left in the pool.
C16_Witness ==
    \E j \in JobIds, k \in JobIds :
        /\ Present(j) /\ Present(k)
        /\ jobs[j].status = "failed" /\ jobs[j].error = Some(ErrEnvironment)
        /\ jobs[k].status = "failed" /\ jobs[k].error = Some(ErrUnexpected)
        /\ jobs[j].result = None /\ jobs[k].result = None
        /\ started[j] = 1 /\ started[k] = 1
        /\ worker = EmptyBag /\ queue = << >>

\* ------------------------------------------------------------------ C17
\* Line 112 of execute either raises or hands all eight results, in the declared
\* order, to the sort of line 113.
C17_BarrierPart ==
    \A t \in Busy :
        t.pc = "pipeline" =>
            \A fault \in Faults \ {"environment"} :
                LET request == t.request[1]
                    collected == CollectResults(request,
                                     FetchEnvironmentalProfile(request.location), fault)
                IN /\ collected.raised <=> fault \in AgentNames
                   /\ collected.raised => collected.results = << >>
                   /\ ~collected.raised =>
                         /\ Len(collected.results) = 8
                         /\ \A i \in 1 .. 8 : collected.results[i].name = AgentOrder[i]

\* A run in which one specialist fails builds no result and writes failed.
C17_FailurePart ==
    \A t \in Busy :
        t.pc = "pipeline" =>
            \A fault \in AgentNames :
                LET run == StagesOf(t.request[1], fault)
                IN /\ run.outcome = "Exception" /\ run.result = None
                   /\ Present(t.job_id) =>
                         TerminalWrite(jobs[t.job_id], run).status = "failed"

\* C17: in every reachable state the ranking of a run is given either all eight
\* specialist results or nothing; a run in which any one specialist fails has
\* no decision list and writes failed; and every result stored on a job holds
\* exactly 8 decisions, one of each specialist.
C17_StoredResultsHoldEightDecisions ==
    /\ C17_BarrierPart
    /\ C17_FailurePart
    /\ \A j \in JobIds :
          (Present(j) /\ jobs[j].result # None) =>
              LET decision_list == jobs[j].result[1].design_decisions
              IN /\ Len(decision_list) = 8
                 /\ { decision_list[i].agent : i \in 1 .. Len(decision_list) } = AgentNames

\* One job is completed and holds a result with eight decisions while another,
\* whose run has failed unexpectedly, holds none.
C17_Witness ==
    \E j \in JobIds, k \in JobIds :
        /\ Present(j) /\ Present(k)
        /\ jobs[j].status = "completed" /\ jobs[j].result # None
        /\ Len(jobs[j].result[1].design_decisions) = 8
        /\ jobs[k].status = "failed" /\ jobs[k].error = Some(ErrUnexpected)
        /\ jobs[k].result = None /\ started[k] = 1

\* ------------------------------------------------------------------ C18
\* C18: when execute returns and when the design graph reaches END, for every
\* request and the profile derived for it, the decision list has exactly 8
\* decisions, every specialist name occurs in it and none twice, and the
\* scores do not increase along the list.
C18_EightDecisionsRankedDescending ==
    node \in {"return", "END"} =>
        /\ Len(pipeline.decisions) = 8
        /\ \A name \in AgentNames :
              Cardinality({ i \in 1 .. Len(pipeline.decisions) :
                              pipeline.decisions[i].agent = name }) = 1
        /\ \A i \in 1 .. Len(pipeline.decisions) - 1 :
              pipeline.decisions[i].score >= pipeline.decisions[i + 1].score

\* The graph has reached END on a request without vastu: the structural
\* engineer's decision is first with 8.8 and the vastu expert's last with 4.9.
C18_Witness ==
    /\ node = "END"
    /\ ~pipeline.payload.requirements.apply_vastu
    /\ Len(pipeline.decisions) = 8
    /\ pipeline.decisions[1].agent = "structural_engineer"
    /\ pipeline.decisions[1].score = 880
    /\ pipeline.decisions[8].agent = "vastu_expert"
    /\ pipeline.decisions[8].score = 490

\* ------------------------------------------------------------------ C19
\* The place of a specialist in the declared order.
C19_Declared(name) == CHOOSE i \in 1 .. Len(AgentOrder) : AgentOrder[i] = name

\* Every decision carries round(raw_score * weight, 2) of its candidate.
C19_ScorePart ==
    /\ Len(pipeline.decisions) = Len(pipeline.agent_results)
    /\ \A i \in 1 .. Len(pipeline.decisions) :
          \E k \in 1 .. Len(pipeline.agent_results) :
              /\ pipeline.agent_results[k].name = pipeline.decisions[i].agent
              /\ pipeline.decisions[i].score =
                    Round2(SortKey(pipeline.agent_results[k]))

\* C19: when the ranking of any list of candidates has returned, every
\* decision's score is round(raw_score * weight, 2), and of two decisions with
\* equal score the one whose specialist is declared earlier comes first.
C19_EqualScoresKeepDeclaredOrder ==
    node \in {"return", "END"} =>
        /\ C19_ScorePart
        /\ \A i, k \in 1 .. Len(pipeline.decisions) :
              (i < k /\ pipeline.decisions[i].score = pipeline.decisions[k].score) =>
                  C19_Declared(pipeline.decisions[i].agent)
                      < C19_Declared(pipeline.decisions[k].agent)

\* ------------------------------------------------------------------ C20
\* The decisions of the specialists other than the vastu expert, in the order
\* they have in the list.
C20_NonVastu(decision_list) ==
    LET Other(d) == d.agent # "vastu_expert"
    IN SelectSeq(decision_list, Other)

\* The request that differs from the one evaluated only in apply_vastu.
C20_Twin ==
    [pipeline.payload EXCEPT !.requirements.apply_vastu = ~@]

\* What the engine that has finished yields on the twin request: execute, or
\* the graph's nodes along its edges and compile_decisions_node.
C20_TwinDecisions ==
    IF node = "return"
      THEN Execute(C20_Twin, pipeline.environmental)
      ELSE LET initial == [pipeline EXCEPT !.payload = C20_Twin,
                                           !.agent_results = << >>, !.decisions = << >>]
               collected ==
                   [i \in 1 .. Len(AgentOrder) |-> GraphNodeResult(AgentOrder[i], initial)]
           IN CompileDecisionsNode([initial EXCEPT !.agent_results = collected])

\* C20: when either engine has finished on a request, the seven decisions of
\* the other specialists are, agent, text, reasoning and score, those that the
\* request differing only in apply_vastu yields, in the same relative order;
\* the vastu expert's text contains 'skipped' when apply_vastu is false and is
\* 'Kitchen placed in south-east zone' when it is true.
C20_VastuChangesOnlyVastuDecision ==
    node \in {"return", "END"} =>
        /\ Len(C20_NonVastu(pipeline.decisions)) = 7
        /\ C20_NonVastu(pipeline.decisions)
             = C20_NonVastu(C20_TwinDecisions)
        /\ \A i \in 1 .. Len(pipeline.decisions) :
              pipeline.decisions[i].agent = "vastu_expert" =>
                  IF pipeline.payload.requirements.apply_vastu
                    THEN /\ pipeline.decisions[i].decision
                              = << "Kitchen placed in south-east zone" >>
                         /\ ~LowerContains(pipeline.decisions[i].decision, "skipped")
                    ELSE LowerContains(pipeline.decisions[i].decision, "skipped")

\* execute has returned on a request with vastu applied: the vastu expert's
\* decision is the kitchen recommendation, last with 5.32.
C20_Witness ==
    /\ node = "return"
    /\ pipeline.payload.requirements.apply_vastu
    /\ Len(pipeline.decisions) = 8
    /\ pipeline.decisions[8].agent = "vastu_expert"
    /\ pipeline.decisions[8].decision = << "Kitchen placed in south-east zone" >>
    /\ pipeline.decisions[8].score = 532

\* ------------------------------------------------------------------ C21
\* The diagnostics of the sub-scores below 7.0, each judged on its own, in the
\* order sunlight, ventilation, structural.
C21_Diagnostics(report) ==
    (IF report.sunlight_score < 700
       THEN << "Plot orientation is not optimal for local sun path" >> ELSE << >>)
    \o (IF report.ventilation_score < 700
          THEN << "Cross-ventilation recommendation missing" >> ELSE << >>)
    \o (IF report.structural_score < 700
          THEN << "Structural load validation recommendation missing" >> ELSE << >>)

\* C21: in every report of the validator the sub-scores are sunlight 8.0 or
\* 4.8, ventilation 8.5 or 6.0, structural 9.0 or 6.5; energy_efficiency is
\* 'A' exactly when their mean is at least 8 and 'B' otherwise; compliant is
\* true exactly when the mean is at least 7.5; and issues holds one fixed
\* diagnostic for each sub-score below 7.0, whatever the mean.
C21_GradesFollowTheMean ==
    pipeline.validation # None =>
        LET report == pipeline.validation[1]
            sum == report.sunlight_score + report.ventilation_score
                   + report.structural_score
        IN /\ report.sunlight_score \in {800, 480}
           /\ report.ventilation_score \in {850, 600}
           /\ report.structural_score \in {900, 650}
           /\ report.energy_efficiency = (IF sum >= 3 * 800 THEN "A" ELSE "B")
           /\ report.compliant = (sum >= 3 * 750)
           /\ report.issues = C21_Diagnostics(report)

\* A report with sunlight 8.0, ventilation 6.0 and structural 9.0: the mean is
\* above 7.5, the report is compliant with grade 'B', and it holds the
\* ventilation diagnostic alone.
C21_Witness ==
    /\ node = "build_outputs"
    /\ pipeline.validation # None
    /\ pipeline.validation[1].sunlight_score = 800
    /\ pipeline.validation[1].ventilation_score = 600
    /\ pipeline.validation[1].structural_score = 900
    /\ pipeline.validation[1].compliant
    /\ pipeline.validation[1].energy_efficiency = "B"
    /\ pipeline.validation[1].issues = << "Cross-ventilation recommendation missing" >>

\* ------------------------------------------------------------------ C22
\* The plot orientation, in lower case, starts with the first letter of the
\* preferred exposure of the request's latitude.
C22_OrientationMatches(request) ==
    FirstLetter(request.plot.orientation) =
        (IF request.location.lat >= 0 THEN "s" ELSE "n")

\* C22: the result a run stores with completed is the one the stages yield for
\* its request, and its report has ventilation_score 8.5 and structural_score
\* 9.0; when the orientation does not start like the preferred exposure the
\* report is sunlight 4.8, not compliant, grade 'B' with the sunlight
\* diagnostic alone, and otherwise sunlight 8.0, compliant, grade 'A' without
\* issues.
C22_CompletedJobReport ==
    node = "completed" =>
        LET report == pipeline.result[1].validation
        IN /\ pipeline.result = RunStages(pipeline.payload, "none").result
           /\ report.ventilation_score = 850
           /\ report.structural_score = 900
           /\ IF C22_OrientationMatches(pipeline.payload)
                THEN /\ report.sunlight_score = 800
                     /\ report.compliant
                     /\ report.energy_efficiency = "A"
                     /\ report.issues = << >>
                ELSE /\ report.sunlight_score = 480
                     /\ ~report.compliant
                     /\ report.energy_efficiency = "B"
                     /\ report.issues
                          = << "Plot orientation is not optimal for local sun path" >>

\* A run on a plot facing north at latitude 13 has stored its result: sunlight
\* 4.8, not compliant, grade 'B', the sunlight diagnostic alone.
C22_Witness ==
    /\ node = "completed"
    /\ pipeline.payload.plot.orientation = "north"
    /\ pipeline.payload.location.lat = 13
    /\ pipeline.result # None
    /\ pipeline.result[1].validation.sunlight_score = 480
    /\ ~pipeline.result[1].validation.compliant
    /\ pipeline.result[1].validation.energy_efficiency = "B"
    /\ Len(pipeline.result[1].validation.issues) = 1

\* ------------------------------------------------------------------ C23
\* The two answers agree in every section but collected_at.
C23_SameValues(first, second) ==
    /\ first.geolocation = second.geolocation
    /\ first.elevation_m = second.elevation_m
    /\ first.weather = second.weather
    /\ first.solar = second.solar
    /\ first.wind = second.wind
    /\ first.rainfall_mm = second.rainfall_mm

\* Every answer has preferred_exposure 'south' exactly when lat >= 0, and
\* prevailing_direction 'SW' exactly when lat >= 0.
C23_ExposurePart ==
    \A i \in 1 .. Len(pipeline.answers) :
        /\ (pipeline.answers[i].solar.preferred_exposure = "south")
              <=> (pipeline.location.lat >= 0)
        /\ (pipeline.answers[i].wind.prevailing_direction = "SW")
              <=> (pipeline.location.lat >= 0)

\* A call changes nothing of the job store, and no step of the job store
\* changes what a call returned.
C23_FramePart ==
    /\ (node' # node) => (UNCHANGED storeVars)
    /\ (node' = node) => (pipeline' = pipeline)

C24_RunWritesResultOfCopiedRequest ==
    [][ \A t \in Busy :
          ( /\ t.pc = "pipeline"
            /\ worker' = Release(t)
            /\ Present(t.job_id)
            /\ jobs'[t.job_id].status = "completed" )
          => /\ jobs'[t.job_id].result = StagesOf(t.request[1], "none").result
             /\ jobs'[t.job_id].request = jobs[t.job_id].request ]_vars

\* A job submitted and then regenerated (two resets) while its first run was in
\* the stages: the only run that started has written completed, the regenerate's run has not started, and
\* the stored result is not the one of the job's current request.
C24_Witness ==
    \E j \in JobIds :
        /\ Present(j)
        /\ resets[j] = 2
        /\ started[j] = 1
        /\ RunsInProgress(j) = 0
        /\ jobs[j].status = "completed"
        /\ jobs[j].result # StagesOf(jobs[j].request, "none").result

\* ------------------------------------------------------------------ C25
\* No stored record is failed with a null error at any instant: the failure
\* branches write status and error in one critical section, and regenerate
\* resets both in one.
C25_StorePart ==
    \A j \in JobIds : (Present(j) /\ jobs[j].status = "failed") => jobs[j].error # None

\* The pair get_status returns with status failed has an error.
C25_AnswerPart ==
    (reader.op = "get_status" /\ reader.pc = "error" /\ reader'.pc = "idle") =>
        /\ reader'.resp.kind = "status"
        /\ reader'.resp.value[1] = "failed" => reader'.resp.value[2] # None

\* C25: the (status, error) pair get_status returns is one the job held at one
\* instant of the call; as no job is ever failed with a null error, get_status
\* never answers failed with a null error.
C25_StatusAnswerIsASnapshot ==
    /\ []C25_StorePart
    /\ [][C25_AnswerPart]_vars

\* ------------------------------------------------------------------ C26
\* A record is stored under its own job_id.
C26_StoredUnderOwnId ==
    \A j \in JobIds : Present(j) => jobs[j].job_id = j

\* The step is the critical section of a regenerate call on id j.
C26_RegenerateOn(j) ==
    \E c \in Callers :
        /\ caller[c].pc = "idle"
        /\ caller'[c] = [pc |-> "dispatch", op |-> "regenerate", job_id |-> j, resp |-> "none"]

\* A step leaves job_id and created_at of every record it keeps; when it changes
\* the request of one, it is regenerate's critical section on that id, and
\* location and plot stay.
C26_FramePart ==
    \A j \in JobIds :
        (Present(j) /\ jobs'[j] # NoJob) =>
            /\ jobs'[j].job_id = jobs[j].job_id
            /\ jobs'[j].created_at = jobs[j].created_at
            /\ jobs'[j].request # jobs[j].request =>
                  /\ C26_RegenerateOn(j)
                  /\ jobs'[j].request.location = jobs[j].request.location
                  /\ jobs'[j].request.plot = jobs[j].request.plot

\* C26: a job's id and created_at never change after submit; its request
\* changes only in regenerate, and there only in the requirements; pool
\* threads, dispatch, get_status, get_result and get_validation_report leave
\* id and request as they are.
C26_IdAndRequestFrame ==
    /\ []C26_StoredUnderOwnId
    /\ [][C26_FramePart]_vars

\* A job regenerated with other requirements and then run to completion, with
\* the id and creation instant it was submitted with, while a reader is inside
\* a call on it.
C26_Witness ==
    \E j \in JobIds :
        /\ Present(j)
        /\ resets[j] = 2
        /\ jobs[j].status = "completed"
        /\ jobs[j].job_id = j
        /\ jobs[j].created_at = 1
        /\ jobs[j].request.requirements # PoolRequirements
        /\ jobs[j].request.location = PoolRequest.location
        /\ jobs[j].request.plot = PoolRequest.plot
        /\ reader.pc # "idle"

\* ------------------------------------------------------------------ C27
\* The state the graph is invoked with for the request and profile at hand.
C27_Initial ==
    [pipeline EXCEPT !.agent_results = << >>, !.decisions = << >>]

\* C27: when execute has returned, its decision list is the one the graph
\* yields from its entry point on the same request and profile, and when the
\* graph has reached END its decisions are the list execute returns: the same
\* agents, texts, reasonings and scores in the same order.
C27_GraphAndExecuteAgree ==
    /\ node = "return"
          => pipeline.decisions = GraphInvokeFrom("architect", C27_Initial)
    /\ node = "END"
          => pipeline.decisions = Execute(pipeline.payload, pipeline.environmental)

\* The graph has reached END on a southern-hemisphere request with vastu, and
\* its eight decisions are those of execute, the architect's aligned to north.
C27_Witness ==
    /\ node = "END"
    /\ pipeline.payload.location.lat < 0
    /\ pipeline.payload.requirements.apply_vastu
    /\ Len(pipeline.decisions) = 8
    /\ pipeline.decisions = Execute(pipeline.payload, pipeline.environmental)
    /\ \E i \in 1 .. 8 :
          /\ pipeline.decisions[i].agent = "architect"
          /\ pipeline.decisions[i].decision = << "Primary living spaces aligned to ", "north" >>

====
